---- MODULE Spec2Model ----
(***************************************************************************)
(* Model of the lighter-go WASM signer library (sharedlib_syscall.go), its *)
(* WASM HTTP client (client/http_*_wasm.go) and the margin-update          *)
(* transaction record (types/txtypes, L2UpdateMarginTxInfo).               *)
(*                                                                         *)
(* The process-wide state of the library is the pair                       *)
(*     txClient         the active client (a *client.TxClient, or nil)     *)
(*     backupTxClients  map[uint8]*client.TxClient                         *)
(* A TxClient is never mutated after client.NewTxClient built it, so a     *)
(* pointer to one is modelled by the record it points to.                  *)
(*                                                                         *)
(* Every exported function is one action.  What a call returned and what   *)
(* it did on the way (nonce look-ups, fetches, the request it built) is    *)
(* recorded in `last`; `hist` keeps what earlier calls did.                *)
(***************************************************************************)
EXTENDS Integers, Sequences, FiniteSets, TLC

VARIABLES
    txClient,         \* sharedlib_syscall.go:21
    backupTxClients,  \* sharedlib_syscall.go:22
    last,             \* the last call of an exported function and its outcome
    hist,             \* history of the successful createClient / switchAPIKey calls
    txInfo,           \* an L2UpdateMarginTxInfo record (pure-function specification)
    txOut,            \* what Validate / Hash gave for txInfo
    fetch,            \* the wasmFetchFetch call in progress, http_client_wasm.go:47
    signer            \* the SignerWASM instance, sharedlib_syscall.go:2049

vars == <<txClient, backupTxClients, last, hist, txInfo, txOut, fetch, signer>>

(***************************************************************************)
(* JavaScript values handed to an exported function (syscall/js.Value).    *)
(***************************************************************************)
Num(n) == [kind |-> "number", n |-> n, s |-> ""]
Str(s) == [kind |-> "string", n |-> 0, s |-> s]
Null == [kind |-> "null", n |-> 0, s |-> ""]
Undefined == [kind |-> "undefined", n |-> 0, s |-> ""]

IsNull(v) == v.kind = "null"
IsUndefined(v) == v.kind = "undefined"
\* js.Value.Int panics unless the value is a number
IntPanics(v) == v.kind # "number"
\* js.Value.String never panics: a non-string gives "<kind: ...>"
String(v) == IF v.kind = "string" THEN v.s ELSE "<" \o v.kind \o ">"

\* Go integer conversions
Uint8(n) == n % 256
Uint16(n) == n % 65536
\* the model draws only 0 <= n < 2^31 for these two, where they change nothing
Uint32(n) == n
Int64(n) == n

\* the nil pointer / nil error
nil == [nil |-> TRUE]
NoError == ""

(***************************************************************************)
(* What an exported function hands back to the host.                       *)
(***************************************************************************)
NoResult == [kind |-> "none"]
\* js.ValueOf(string(jsonBytes)) of a marshalled response struct
Json(error, result) == [kind |-> "json", error |-> error, result |-> result]
\* a recovered panic in a function whose result is unnamed: the zero value of `any`
GoNil == [kind |-> "nil", error |-> "", result |-> NoResult]

NoTime == [sec |-> -1, ms |-> 0]
NoReq == [kind |-> "none"]
\* no request was put to the network
NoAnswer == [kind |-> "none"]

\* The outcome of a call: what it returned (ret), how many GetNextNonce
\* calls (nonceCalls) and JavaScript fetch invocations (fetches) it made,
\* whether it got as far as Get<Kind>Transaction / GetAuthToken (built), the
\* clock value it read (now), the request it built (req) and what the
\* network answered to its nonce request (answer).
\* The outcome of a call before it did anything:
Outcome0 ==
    [ret |-> GoNil, nonceCalls |-> 0, fetches |-> 0, built |-> FALSE,
     now |-> NoTime, req |-> NoReq, answer |-> NoAnswer]

Returned(ret) == [Outcome0 EXCEPT !.ret = ret]
Failed(error) == Returned(Json(error, NoResult))
Panicked == Returned(GoNil)

(***************************************************************************)
(* validateArg, sharedlib_syscall.go:26.  `index` is the Go (0-based)      *)
(* index; args is a TLA+ sequence.                                         *)
(***************************************************************************)
validateArg(args, index, argName) ==
    IF index >= Len(args)
    THEN "missing required argument: " \o argName
    ELSE IF IsNull(args[index + 1])
    THEN "argument " \o argName \o " cannot be null"
    ELSE IF IsUndefined(args[index + 1])
    THEN "argument " \o argName \o " cannot be undefined"
    ELSE NoError

\* the first error validateArg gives over argNames, in index order
RECURSIVE validateArgsFrom(_, _, _)
validateArgsFrom(args, argNames, i) ==
    IF i >= Len(argNames) THEN NoError
    ELSE LET err == validateArg(args, i, argNames[i + 1])
         IN  IF err # NoError THEN err
             ELSE validateArgsFrom(args, argNames, i + 1)

\* Faulty variant of validateArgs: the arguments are examined from the last
\* index down.
RECURSIVE validateArgsDown(_, _, _)
validateArgsDown(args, argNames, i) ==
    IF i < 0 THEN NoError
    ELSE LET err == validateArg(args, i, argNames[i + 1])
         IN  IF err # NoError THEN err
             ELSE validateArgsDown(args, argNames, i - 1)

validateArgsLastFirst(args, argNames) == validateArgsDown(args, argNames, Len(argNames) - 1)

validateArgs(args, argNames) == validateArgsFrom(args, argNames, 0)

(***************************************************************************)
(* client.NewHTTPClient, http_client_wasm.go:18                            *)
(***************************************************************************)
NewHTTPClient(baseUrl) ==
    IF baseUrl = "" THEN nil
    ELSE [endpoint |-> baseUrl, channelName |-> "", fatFingerProtection |-> TRUE]

(***************************************************************************)
(* client.NewTxClient is not among the sources.  It decodes the private    *)
(* key and returns (nil, err) when that fails, else the client.            *)
(***************************************************************************)
ValidPrivateKeys == {"0xA", "0xB"}

NewTxClient(httpClient, privateKey, accountIndex, apiKeyIndex, chainId) ==
    IF privateKey \notin ValidPrivateKeys
    THEN [client |-> nil, err |-> "invalid private key"]
    ELSE [client |-> [apiClient |-> httpClient, keyManager |-> privateKey,
                      accountIndex |-> accountIndex, apiKeyIndex |-> apiKeyIndex,
                      chainId |-> chainId],
          err |-> NoError]

\* the public key of a private key (external schnorr library)
PubKeyOf(privateKey) == "pub:" \o privateKey

\* backupTxClients = make(map[uint8]*client.TxClient)
EmptyMap == [x \in {} |-> nil]

\* Faulty variant of MapSet: every client is stored in slot 0.
MapSetFirstSlot(m, k, c) == [x \in DOMAIN m \cup {0} |-> IF x = 0 THEN c ELSE m[x]]

\* Faulty variant of MapSet: the map is made anew for the entry.
MapSetAnew(m, k, c) == [x \in {k} |-> c]

\* backupTxClients[k] = c
MapSet(m, k, c) == [x \in DOMAIN m \cup {k} |-> IF x = k THEN c ELSE m[x]]

(***************************************************************************)
(* Go errors of the client package: nil, or an error with its message      *)
(* (errors.New("") is an error too).                                       *)
(***************************************************************************)
NilErr == [isErr |-> FALSE, msg |-> ""]
Err(msg) == [isErr |-> TRUE, msg |-> msg]

(***************************************************************************)
(* What wasmFetch returns (http_client_wasm.go:41-144): (body, status,     *)
(* err), and whether the JavaScript fetch function was invoked.  The       *)
(* remote side and the JavaScript event loop choose among these.           *)
(***************************************************************************)
StatusOK == 200
\* client.CodeOK is not among the sources
CodeOK == 200

\* typed: json.Unmarshal into the result struct of the endpoint succeeds
NoBody ==
    [text |-> "", json |-> FALSE, typed |-> FALSE, code |-> 0, message |-> "",
     nonce |-> 0, apiKeys |-> <<>>, txHash |-> ""]
\* a JSON body {"code":..,"message":..,"nonce":..,"api_keys":[..]}
JsonBody(code, message, nonce, apiKeys) ==
    [text |-> "{json}", json |-> TRUE, typed |-> TRUE, code |-> code, message |-> message,
     nonce |-> nonce, apiKeys |-> apiKeys, txHash |-> ""]
TextBody(text) == [NoBody EXCEPT !.text = text]

Delivered(body, status) == [body |-> body, status |-> status, err |-> NilErr, fetched |-> TRUE]
TextFailed(status) ==
    [body |-> NoBody, status |-> status, err |-> Err("failed to read response text"), fetched |-> TRUE]
FetchFailed(errMsg) ==
    [body |-> NoBody, status |-> 0, err |-> Err("fetch failed: " \o errMsg), fetched |-> TRUE]
FetchTimeout ==
    [body |-> NoBody, status |-> 0, err |-> Err("fetch timeout after 30 seconds"), fetched |-> TRUE]
FetchUnavailable ==
    [body |-> NoBody, status |-> 0, err |-> Err("fetch API not available"), fetched |-> FALSE]

\* net/url.Parse on the endpoints the model draws
UrlParses(endpoint) == endpoint # "%zz"

(***************************************************************************)
(* http_requests_wasm.go                                                   *)
(***************************************************************************)
\* Faulty variant of parseResultStatus: the result code is not read.
parseResultStatusAnyCode(respBody) ==
    IF ~respBody.json THEN Err("invalid character")
    ELSE NilErr

parseResultStatus(respBody) ==
    IF ~respBody.json THEN Err("invalid character")
    ELSE IF respBody.code # CodeOK THEN Err(respBody.message)
    ELSE NilErr

\* c is the *HTTPClient, fr what wasmFetch returns if it is called.
\* panic: c is nil and c.endpoint is read.
getAndParseL2HTTPResponse(c, fr) ==
    IF c = nil
    THEN [err |-> NilErr, body |-> NoBody, fetches |-> 0, panic |-> TRUE]
    ELSE IF ~UrlParses(c.endpoint)
    THEN [err |-> Err("parse error"), body |-> NoBody, fetches |-> 0, panic |-> FALSE]
    ELSE LET n == IF fr.fetched THEN 1 ELSE 0
         IN  IF fr.err.isErr
             THEN [err |-> fr.err, body |-> NoBody, fetches |-> n, panic |-> FALSE]
             ELSE IF fr.status # StatusOK
             THEN [err |-> Err(fr.body.text), body |-> NoBody, fetches |-> n, panic |-> FALSE]
             ELSE IF parseResultStatus(fr.body).isErr
             THEN [err |-> parseResultStatus(fr.body), body |-> NoBody,
                   fetches |-> n, panic |-> FALSE]
             ELSE IF ~fr.body.typed
             THEN [err |-> Err("cannot unmarshal"), body |-> NoBody,
                   fetches |-> n, panic |-> FALSE]
             ELSE [err |-> NilErr, body |-> fr.body, fetches |-> n, panic |-> FALSE]

GetNextNonce(c, fr) ==
    LET result(r) ==
            IF r.panic \/ r.err.isErr
            THEN [nonce |-> -1, err |-> r.err, fetches |-> r.fetches, panic |-> r.panic]
            ELSE [nonce |-> r.body.nonce, err |-> NilErr, fetches |-> r.fetches,
                  panic |-> FALSE]
    IN  result(getAndParseL2HTTPResponse(c, fr))

GetApiKey(c, fr) ==
    LET result(r) ==
            IF r.panic \/ r.err.isErr
            THEN [keys |-> nil, err |-> r.err, fetches |-> r.fetches, panic |-> r.panic]
            ELSE [keys |-> r.body.apiKeys, err |-> NilErr, fetches |-> r.fetches,
                  panic |-> FALSE]
    IN  result(getAndParseL2HTTPResponse(c, fr))

\* Faulty variant of SendRawTx: price_protection is sent with every request.
SendRawTxAlwaysUnprotected(c, txType, info, fr) ==
    LET data == IF c = nil THEN NoReq
                ELSE [tx_type |-> txType, tx_info |-> info.text, price_protection |-> "false"]
        n == IF fr.fetched THEN 1 ELSE 0
        failed(err) == [txHash |-> "", err |-> err, fetches |-> n, form |-> data,
                        panic |-> FALSE]
    IN  IF info.err.isErr
        THEN [txHash |-> "", err |-> info.err, fetches |-> 0, form |-> NoReq, panic |-> FALSE]
        ELSE IF c = nil
        THEN [txHash |-> "", err |-> NilErr, fetches |-> 0, form |-> NoReq, panic |-> TRUE]
        ELSE IF fr.err.isErr THEN failed(fr.err)
        ELSE IF fr.status # StatusOK THEN failed(Err(fr.body.text))
        ELSE IF parseResultStatus(fr.body).isErr THEN failed(parseResultStatus(fr.body))
        ELSE IF ~fr.body.typed THEN failed(Err("cannot unmarshal"))
        ELSE [txHash |-> fr.body.txHash, err |-> NilErr, fetches |-> n, form |-> data,
              panic |-> FALSE]

\* SendRawTx, http_requests_wasm.go:76.  info is what tx.GetTxInfo()
\* returns: [text, err]; form is the form data of the POST request, if one
\* was built.  panic: c is nil and c.fatFingerProtection is read.
SendRawTx(c, txType, info, fr) ==
    LET data == IF c = nil THEN NoReq
                ELSE IF c.fatFingerProtection = FALSE
                THEN [tx_type |-> txType, tx_info |-> info.text, price_protection |-> "false"]
                ELSE [tx_type |-> txType, tx_info |-> info.text]
        n == IF fr.fetched THEN 1 ELSE 0
        failed(err) == [txHash |-> "", err |-> err, fetches |-> n, form |-> data,
                        panic |-> FALSE]
    IN  IF info.err.isErr
        THEN [txHash |-> "", err |-> info.err, fetches |-> 0, form |-> NoReq, panic |-> FALSE]
        ELSE IF c = nil
        THEN [txHash |-> "", err |-> NilErr, fetches |-> 0, form |-> NoReq, panic |-> TRUE]
        ELSE IF fr.err.isErr THEN failed(fr.err)
        ELSE IF fr.status # StatusOK THEN failed(Err(fr.body.text))
        ELSE IF parseResultStatus(fr.body).isErr THEN failed(parseResultStatus(fr.body))
        ELSE IF ~fr.body.typed THEN failed(Err("cannot unmarshal"))
        ELSE [txHash |-> fr.body.txHash, err |-> NilErr, fetches |-> n, form |-> data,
              panic |-> FALSE]


(***************************************************************************)
(* types/txtypes: L2UpdateMarginTxInfo (unnamed/part_000).  The bounds     *)
(* MinAccountIndex .. MaxTimestamp are declared in a file that is not      *)
(* among the sources; the upper bounds of the 48-bit quantities are scaled *)
(* down to numbers TLC can enumerate around.                               *)
(***************************************************************************)
MinAccountIndex == 0
MaxAccountIndex == 3
MaxApiKeyIndex == 254
MinMarketIndex == 0
MaxMarketIndex == 254
MinNonce == 0
MaxTimestamp == 3
TxTypeL2UpdateMargin == 29

ErrFromAccountIndexTooLow == "FromAccountIndexTooLow"
ErrFromAccountIndexTooHigh == "FromAccountIndexTooHigh"
ErrApiKeyIndexTooHigh == "ApiKeyIndexTooHigh"
ErrMarketIndexTooLow == "MarketIndexTooLow"
ErrMarketIndexTooHigh == "MarketIndexTooHigh"
ErrUSDCAmountIsZero == "USDCAmountIsZero"
ErrNonceTooLow == "NonceTooLow"
ErrExpiredAtInvalid == "ExpiredAtInvalid"

\* Faulty variant of Validate: the nonce is checked before the amount.
ValidateNonceBeforeAmount(t) ==
    IF t.AccountIndex <= MinAccountIndex THEN ErrFromAccountIndexTooLow
    ELSE IF t.AccountIndex > MaxAccountIndex THEN ErrFromAccountIndexTooHigh
    ELSE IF t.ApiKeyIndex > MaxApiKeyIndex THEN ErrApiKeyIndexTooHigh
    ELSE IF t.MarketIndex < MinMarketIndex THEN ErrMarketIndexTooLow
    ELSE IF t.MarketIndex > MaxMarketIndex THEN ErrMarketIndexTooHigh
    ELSE IF t.Nonce < MinNonce THEN ErrNonceTooLow
    ELSE IF t.USDCAmount = 0 THEN ErrUSDCAmountIsZero
    ELSE IF t.ExpiredAt < 0 \/ t.ExpiredAt > MaxTimestamp THEN ErrExpiredAtInvalid
    ELSE NoError

\* Faulty variant of Validate: an amount that removes margin is refused.
ValidateRefusesNegativeAmount(t) ==
    IF t.AccountIndex <= MinAccountIndex THEN ErrFromAccountIndexTooLow
    ELSE IF t.AccountIndex > MaxAccountIndex THEN ErrFromAccountIndexTooHigh
    ELSE IF t.ApiKeyIndex > MaxApiKeyIndex THEN ErrApiKeyIndexTooHigh
    ELSE IF t.MarketIndex < MinMarketIndex THEN ErrMarketIndexTooLow
    ELSE IF t.MarketIndex > MaxMarketIndex THEN ErrMarketIndexTooHigh
    ELSE IF t.USDCAmount <= 0 THEN ErrUSDCAmountIsZero
    ELSE IF t.Nonce < MinNonce THEN ErrNonceTooLow
    ELSE IF t.ExpiredAt < 0 \/ t.ExpiredAt > MaxTimestamp THEN ErrExpiredAtInvalid
    ELSE NoError

\* Faulty variant of Validate: the account index MinAccountIndex is accepted.
ValidateAcceptsMinAccount(t) ==
    IF t.AccountIndex < MinAccountIndex THEN ErrFromAccountIndexTooLow
    ELSE IF t.AccountIndex > MaxAccountIndex THEN ErrFromAccountIndexTooHigh
    ELSE IF t.ApiKeyIndex > MaxApiKeyIndex THEN ErrApiKeyIndexTooHigh
    ELSE IF t.MarketIndex < MinMarketIndex THEN ErrMarketIndexTooLow
    ELSE IF t.MarketIndex > MaxMarketIndex THEN ErrMarketIndexTooHigh
    ELSE IF t.USDCAmount = 0 THEN ErrUSDCAmountIsZero
    ELSE IF t.Nonce < MinNonce THEN ErrNonceTooLow
    ELSE IF t.ExpiredAt < 0 \/ t.ExpiredAt > MaxTimestamp THEN ErrExpiredAtInvalid
    ELSE NoError

\* L2UpdateMarginTxInfo.Validate, part_000:22.  NoError is the nil error.
Validate(t) ==
    IF t.AccountIndex <= MinAccountIndex THEN ErrFromAccountIndexTooLow
    ELSE IF t.AccountIndex > MaxAccountIndex THEN ErrFromAccountIndexTooHigh
    ELSE IF t.ApiKeyIndex > MaxApiKeyIndex THEN ErrApiKeyIndexTooHigh
    ELSE IF t.MarketIndex < MinMarketIndex THEN ErrMarketIndexTooLow
    ELSE IF t.MarketIndex > MaxMarketIndex THEN ErrMarketIndexTooHigh
    ELSE IF t.USDCAmount = 0 THEN ErrUSDCAmountIsZero
    ELSE IF t.Nonce < MinNonce THEN ErrNonceTooLow
    ELSE IF t.ExpiredAt < 0 \/ t.ExpiredAt > MaxTimestamp THEN ErrExpiredAtInvalid
    ELSE NoError

(***************************************************************************)
(* The field elements Hash builds.  The packages g (the Goldilocks field,   *)
(* order 2^64 - 2^32 + 1) and p2 (Poseidon2) are a library outside the     *)
(* sources.  From the specification, section 4.1: an unsigned value below  *)
(* the characteristic is its own element and a signed value is encoded by  *)
(* reduction, here modulo the order.  Words are scaled from 64 to 16 bits  *)
(* so that TLC can compute with them: int64 becomes -2^15 .. 2^15 - 1 (the *)
(* range -MaxInt64 - 1 .. MaxInt64), uint32 becomes 0 .. 2^8 - 1, the      *)
(* order becomes 2^16 - 2^8 + 1.                                           *)
(***************************************************************************)
MaxInt64 == 32767
ORDER == 65281

FromUint32(v) == v % ORDER
FromInt64(v) == v % ORDER

\* the digest of a sequence of elements, named by the sequence it digests
HashToQuinticExtension(elems) == [elems |-> elems]

\* Faulty variant of Hash: ExpiredAt is appended before Nonce.
HashExpiryBeforeNonce(t, lighterChainId, extra) ==
    [msgHash |-> HashToQuinticExtension(
                     <<FromUint32(lighterChainId),
                       FromUint32(TxTypeL2UpdateMargin),
                       FromInt64(t.ExpiredAt),
                       FromInt64(t.Nonce),
                       FromInt64(t.AccountIndex),
                       FromUint32(t.ApiKeyIndex),
                       FromUint32(t.MarketIndex),
                       FromUint32(t.Direction),
                       FromInt64(t.USDCAmount)>>),
     err |-> NoError]

\* Faulty variant of Hash: the extra elements are appended to the sequence.
HashAppendsExtra(t, lighterChainId, extra) ==
    [msgHash |-> HashToQuinticExtension(
                     <<FromUint32(lighterChainId),
                       FromUint32(TxTypeL2UpdateMargin),
                       FromInt64(t.Nonce),
                       FromInt64(t.ExpiredAt),
                       FromInt64(t.AccountIndex),
                       FromUint32(t.ApiKeyIndex),
                       FromUint32(t.MarketIndex),
                       FromUint32(t.Direction),
                       FromInt64(t.USDCAmount)>> \o extra),
     err |-> NoError]

\* L2UpdateMarginTxInfo.Hash, part_000:62: (msgHash, err).  extra is a
\* parameter the body never reads.
Hash(t, lighterChainId, extra) ==
    [msgHash |-> HashToQuinticExtension(
                     <<FromUint32(lighterChainId),
                       FromUint32(TxTypeL2UpdateMargin),
                       FromInt64(t.Nonce),
                       FromInt64(t.ExpiredAt),
                       FromInt64(t.AccountIndex),
                       FromUint32(t.ApiKeyIndex),
                       FromUint32(t.MarketIndex),
                       FromUint32(t.Direction),
                       FromInt64(t.USDCAmount)>>),
     err |-> NoError]

(***************************************************************************)
(* client.TxClient (tx_client.go, tx_get.go) is not among the sources.     *)
(* From the specification, section 4.4: Get<Kind>Transaction fills the     *)
(* protocol fields from the client (account, api key), resolves the nonce  *)
(* with one GetNextNonce call when the caller gave none, fills the default *)
(* expiry, runs Validate, hashes and signs with the client's key.          *)
(***************************************************************************)
\* the expiry FullFillDefaultOps fills in when ops.ExpiredAt is 0
DefaultExpiredAt == 1

\* ops is types.TransactOpts: [hasNonce, Nonce, ExpiredAt]
FullFillDefaultOps(tc, ops, fr) ==
    LET exp == IF ops.ExpiredAt = 0 THEN DefaultExpiredAt ELSE ops.ExpiredAt
        resolved(r) ==
            [Nonce |-> r.nonce, ExpiredAt |-> exp, err |-> r.err,
             nonceCalls |-> 1, fetches |-> r.fetches, panic |-> r.panic]
    IN  IF ops.hasNonce
        THEN [Nonce |-> ops.Nonce, ExpiredAt |-> exp, err |-> NilErr,
              nonceCalls |-> 0, fetches |-> 0, panic |-> FALSE]
        ELSE resolved(GetNextNonce(tc.apiClient, fr))

\* the checks every kind's Validate makes on the protocol fields
ValidateCommon(t) ==
    IF t.AccountIndex <= MinAccountIndex THEN ErrFromAccountIndexTooLow
    ELSE IF t.AccountIndex > MaxAccountIndex THEN ErrFromAccountIndexTooHigh
    ELSE IF t.ApiKeyIndex > MaxApiKeyIndex THEN ErrApiKeyIndexTooHigh
    ELSE IF t.Nonce < MinNonce THEN ErrNonceTooLow
    ELSE IF t.ExpiredAt < 0 \/ t.ExpiredAt > MaxTimestamp THEN ErrExpiredAtInvalid
    ELSE NoError

\* kindOk: whether the kind's own constraints, whose code is not among the
\* sources, accept the request
ValidateKind(kind, t, kindOk) ==
    IF kind = "UpdateMargin"
    THEN Validate([AccountIndex |-> t.AccountIndex, ApiKeyIndex |-> t.ApiKeyIndex,
                   MarketIndex |-> t.body.MarketIndex, USDCAmount |-> t.body.USDCAmount,
                   Direction |-> t.body.Direction, ExpiredAt |-> t.ExpiredAt,
                   Nonce |-> t.Nonce])
    ELSE LET kindErr(common) ==
                 IF common # NoError THEN common
                 ELSE IF ~kindOk THEN "kind-specific constraint violated"
                 ELSE NoError
         IN  kindErr(ValidateCommon(t))

NoTx == [kind |-> "none"]

\* Get<Kind>Transaction(req, ops) on client tc
GetTransaction(tc, kind, req, ops, fr, kindOk) ==
    LET txInfoOf(d) ==
            [kind |-> "tx", TxType |-> kind,
             AccountIndex |-> tc.accountIndex, ApiKeyIndex |-> tc.apiKeyIndex,
             Nonce |-> d.Nonce, ExpiredAt |-> d.ExpiredAt, body |-> req,
             Sig |-> <<>>, MessageToSign |-> ""]
        signed(d, t, verr) ==
            IF verr # NoError
            THEN [tx |-> NoTx, err |-> Err(verr), panic |-> FALSE,
                  nonceCalls |-> d.nonceCalls, fetches |-> d.fetches]
            ELSE [tx |-> [t EXCEPT !.Sig = <<"sig", tc.keyManager, tc.chainId>>],
                  err |-> NilErr, panic |-> FALSE,
                  nonceCalls |-> d.nonceCalls, fetches |-> d.fetches]
        validated(d, t) == signed(d, t, ValidateKind(kind, t, kindOk))
        built(d) ==
            IF d.panic \/ d.err.isErr
            THEN [tx |-> NoTx, err |-> d.err, panic |-> d.panic,
                  nonceCalls |-> d.nonceCalls, fetches |-> d.fetches]
            ELSE validated(d, txInfoOf(d))
    IN  built(FullFillDefaultOps(tc, ops, fr))

\* the auth token GetAuthToken(deadline) builds and signs
GetAuthToken(tc, deadline) ==
    [kind |-> "token", deadline |-> deadline, AccountIndex |-> tc.accountIndex,
     ApiKeyIndex |-> tc.apiKeyIndex, Sig |-> <<"sig", tc.keyManager, tc.chainId>>]

(***************************************************************************)
(* Wall-clock time: Unix seconds and the milliseconds within the second.   *)
(* A Unix-millisecond timestamp is kept as this pair, since the 28-day     *)
(* horizon in milliseconds exceeds the integers TLC computes with.         *)
(***************************************************************************)
Millis(n) == [sec |-> n \div 1000, ms |-> n % 1000]
\* Faulty variant: the 28-day horizon taken in seconds, time.Now().Add(...).Unix()
OrderExpiryDefaultInSeconds(now) == Millis(now.sec + 28 * 24 * 3600)

\* time.Now().Add(time.Hour * 24 * 28).UnixMilli()
OrderExpiryDefault(now) == [sec |-> now.sec + 28 * 24 * 3600, ms |-> now.ms]
\* time.Now().Add(time.Hour * 7).Unix()
DeadlineDefault(now) == now.sec + 7 * 3600


(***************************************************************************)
(* The exported functions of sharedlib_syscall.go.  Each <name>Call is the *)
(* function body as an operator of its arguments, the global state it      *)
(* reads and what the environment (clock, network) answers; the action     *)
(* <name> applies it.                                                      *)
(***************************************************************************)
NoClientError == "client is not created, call CreateClient() first"

\* Faulty variant of createClient: the map is rebuilt with the new client
\* only (backupTxClients = map[uint8]*TxClient{apiKeyIndex: txClient}).
createClientCallForgetsOthers(args, tc, backup) ==
    LET same(out) == [out |-> out, txClient |-> tc, backup |-> backup, ok |-> FALSE]
        verr == validateArgs(args, <<"url", "privateKey", "chainId", "apiKeyIndex", "accountIndex">>)
    IN  IF Len(args) # 5
        THEN same(Failed("createClient requires 5 arguments: url, privateKey, chainId, apiKeyIndex, accountIndex"))
        ELSE IF verr # NoError THEN same(Failed(verr))
        ELSE IF IntPanics(args[3]) \/ IntPanics(args[4]) \/ IntPanics(args[5])
        THEN same(Panicked)
        ELSE LET r == NewTxClient(NewHTTPClient(String(args[1])), String(args[2]),
                                  Int64(args[5].n), Uint8(args[4].n), Uint32(args[3].n))
             IN  IF Int64(args[5].n) <= 0 THEN same(Failed("invalid account index"))
                 ELSE IF r.err # NoError
                 THEN [out |-> Failed("error occurred when creating TxClient. err: " \o r.err),
                       txClient |-> r.client, backup |-> backup, ok |-> FALSE]
                 ELSE [out |-> Returned(Json("", NoResult)),
                       txClient |-> r.client,
                       backup |-> MapSet(EmptyMap, Uint8(args[4].n), r.client), ok |-> TRUE]

\* createClient, sharedlib_syscall.go:102.  Gives the response and the
\* values of txClient and backupTxClients when the function returns.
createClientCall(args, tc, backup) ==
    LET same(out) == [out |-> out, txClient |-> tc, backup |-> backup, ok |-> FALSE]
        verr == validateArgs(args, <<"url", "privateKey", "chainId", "apiKeyIndex", "accountIndex">>)
    IN  IF Len(args) # 5
        THEN same(Failed("createClient requires 5 arguments: url, privateKey, chainId, apiKeyIndex, accountIndex"))
        ELSE IF verr # NoError THEN same(Failed(verr))
        ELSE IF IntPanics(args[3]) \/ IntPanics(args[4]) \/ IntPanics(args[5])
        THEN same(Panicked)
        ELSE LET url == String(args[1])
                 privateKey == String(args[2])
                 chainId == Uint32(args[3].n)
                 apiKeyIndex == Uint8(args[4].n)
                 accountIndex == Int64(args[5].n)
                 httpClient == NewHTTPClient(url)
                 r == NewTxClient(httpClient, privateKey, accountIndex, apiKeyIndex, chainId)
             IN  IF accountIndex <= 0 THEN same(Failed("invalid account index"))
                 ELSE IF r.err # NoError
                 \* txClient, err = client.NewTxClient(...): assigned before err is read
                 THEN [out |-> Failed("error occurred when creating TxClient. err: " \o r.err),
                       txClient |-> r.client, backup |-> backup, ok |-> FALSE]
                 ELSE [out |-> Returned(Json("", NoResult)),
                       txClient |-> r.client,
                       backup |-> MapSet(backup, apiKeyIndex, r.client), ok |-> TRUE]

\* Faulty variant of switchAPIKey: a miss clears the active client.
switchAPIKeyCallDropsOnMiss(args, tc, backup) ==
    LET same(out) == [out |-> out, txClient |-> tc, ok |-> FALSE]
        verr == validateArgs(args, <<"apiKeyIndex">>)
    IN  IF Len(args) # 1 THEN same(Failed("switchAPIKey requires 1 argument: apiKeyIndex"))
        ELSE IF verr # NoError THEN same(Failed(verr))
        ELSE IF IntPanics(args[1]) THEN same(Panicked)
        ELSE LET apiKeyIndex == Uint8(args[1].n)
             IN  IF apiKeyIndex \notin DOMAIN backup
                 THEN [out |-> Failed("no client initialized for api key"),
                       txClient |-> nil, ok |-> FALSE]
                 ELSE [out |-> Returned(Json("", NoResult)),
                       txClient |-> backup[apiKeyIndex], ok |-> TRUE]

\* Faulty variant of switchAPIKey: a hit reports success without the
\* assignment txClient = client.
switchAPIKeyCallKeepsActive(args, tc, backup) ==
    LET same(out) == [out |-> out, txClient |-> tc, ok |-> FALSE]
        verr == validateArgs(args, <<"apiKeyIndex">>)
    IN  IF Len(args) # 1 THEN same(Failed("switchAPIKey requires 1 argument: apiKeyIndex"))
        ELSE IF verr # NoError THEN same(Failed(verr))
        ELSE IF IntPanics(args[1]) THEN same(Panicked)
        ELSE LET apiKeyIndex == Uint8(args[1].n)
             IN  IF apiKeyIndex \notin DOMAIN backup
                 THEN same(Failed("no client initialized for api key"))
                 ELSE [out |-> Returned(Json("", NoResult)), txClient |-> tc, ok |-> TRUE]

\* switchAPIKey, sharedlib_syscall.go:1781
switchAPIKeyCall(args, tc, backup) ==
    LET same(out) == [out |-> out, txClient |-> tc, ok |-> FALSE]
        verr == validateArgs(args, <<"apiKeyIndex">>)
    IN  IF Len(args) # 1 THEN same(Failed("switchAPIKey requires 1 argument: apiKeyIndex"))
        ELSE IF verr # NoError THEN same(Failed(verr))
        ELSE IF IntPanics(args[1]) THEN same(Panicked)
        ELSE LET apiKeyIndex == Uint8(args[1].n)
             IN  IF apiKeyIndex \notin DOMAIN backup
                 THEN same(Failed("no client initialized for api key"))
                 ELSE [out |-> Returned(Json("", NoResult)),
                       txClient |-> backup[apiKeyIndex], ok |-> TRUE]

\* Faulty variant of checkClient: the account index is not compared.
checkClientCallSkipsAccount(args, backup, fr) ==
    LET verr == validateArgs(args, <<"apiKeyIndex", "accountIndex">>)
        panicked == Failed("PANIC in checkClient")
    IN  IF Len(args) = 0 THEN Failed("no arguments provided")
        ELSE IF Len(args) # 2
        THEN Failed("checkClient requires 2 arguments: apiKeyIndex, accountIndex")
        ELSE IF verr # NoError THEN Failed(verr)
        ELSE IF IntPanics(args[1]) \/ IntPanics(args[2]) THEN panicked
        ELSE LET apiKeyIndex == Uint8(args[1].n)
                 accountIndex == Int64(args[2].n)
             IN  IF apiKeyIndex \notin DOMAIN backup THEN Failed("api key not registered")
                 ELSE LET client == backup[apiKeyIndex]
                          k == GetApiKey(client.apiClient, fr)
                          pubKeyStr == PubKeyOf(client.keyManager)
                      IN  IF client.apiKeyIndex # apiKeyIndex
                          THEN Failed("apiKeyIndex does not match")
                          ELSE IF k.panic
                          THEN [panicked EXCEPT !.fetches = k.fetches]
                          ELSE IF k.err.isErr
                          THEN [Failed("failed to get Api Keys. err: " \o k.err.msg)
                                    EXCEPT !.fetches = k.fetches]
                          \* key.ApiKeys[0] on an empty list: index out of range
                          ELSE IF Len(k.keys) = 0
                          THEN [panicked EXCEPT !.fetches = k.fetches]
                          ELSE IF k.keys[1] # pubKeyStr
                          THEN [Failed("private key does not match the one on Lighter")
                                    EXCEPT !.fetches = k.fetches]
                          ELSE [Returned(Json("", NoResult)) EXCEPT !.fetches = k.fetches]

\* checkClient, sharedlib_syscall.go:187.  Its result is named, so a
\* recovered panic returns the JSON error the deferred function builds.
checkClientCall(args, backup, fr) ==
    LET verr == validateArgs(args, <<"apiKeyIndex", "accountIndex">>)
        panicked == Failed("PANIC in checkClient")
    IN  IF Len(args) = 0 THEN Failed("no arguments provided")
        ELSE IF Len(args) # 2
        THEN Failed("checkClient requires 2 arguments: apiKeyIndex, accountIndex")
        ELSE IF verr # NoError THEN Failed(verr)
        ELSE IF IntPanics(args[1]) \/ IntPanics(args[2]) THEN panicked
        ELSE LET apiKeyIndex == Uint8(args[1].n)
                 accountIndex == Int64(args[2].n)
             IN  IF apiKeyIndex \notin DOMAIN backup THEN Failed("api key not registered")
                 ELSE LET client == backup[apiKeyIndex]
                          k == GetApiKey(client.apiClient, fr)
                          pubKeyStr == PubKeyOf(client.keyManager)
                      IN  IF client.apiKeyIndex # apiKeyIndex
                          THEN Failed("apiKeyIndex does not match")
                          ELSE IF client.accountIndex # accountIndex
                          THEN Failed("accountIndex does not match")
                          ELSE IF k.panic
                          THEN [panicked EXCEPT !.fetches = k.fetches]
                          ELSE IF k.err.isErr
                          THEN [Failed("failed to get Api Keys. err: " \o k.err.msg)
                                    EXCEPT !.fetches = k.fetches]
                          \* key.ApiKeys[0] on an empty list: index out of range
                          ELSE IF Len(k.keys) = 0
                          THEN [panicked EXCEPT !.fetches = k.fetches]
                          ELSE IF k.keys[1] # pubKeyStr
                          THEN [Failed("private key does not match the one on Lighter")
                                    EXCEPT !.fetches = k.fetches]
                          ELSE [Returned(Json("", NoResult)) EXCEPT !.fetches = k.fetches]

\* curve.SampleScalar(seed): the scalar derived from a seed (external library)
SeedKey(seed) == IF seed = "seed one" THEN "0xA" ELSE "0xB"

\* generateAPIKey, sharedlib_syscall.go:58.  rnd: the scalar
\* curve.SampleScalar draws at random when there is no seed.
generateAPIKeyCall(args, rnd) ==
    LET seed == IF Len(args) > 0 /\ ~IsNull(args[1]) /\ ~IsUndefined(args[1])
                THEN String(args[1]) ELSE ""
        key == IF seed # "" THEN SeedKey(seed) ELSE rnd
    IN  Returned(Json("", [kind |-> "apikey", privateKey |-> key, publicKey |-> PubKeyOf(key)]))

\* createAuthToken, sharedlib_syscall.go:1733
createAuthTokenCall(args, tc, now) ==
    IF Len(args) > 0 /\ IntPanics(args[1]) THEN Panicked
    ELSE LET deadline0 == IF Len(args) > 0 THEN Int64(args[1].n) ELSE 0
             deadline == IF deadline0 = 0 THEN DeadlineDefault(now) ELSE deadline0
         IN  IF tc = nil THEN Failed(NoClientError)
             ELSE [Returned(Json("", GetAuthToken(tc, deadline)))
                       EXCEPT !.now = IF deadline0 = 0 THEN now ELSE NoTime,
                              !.built = TRUE]


(***************************************************************************)
(* The sign functions.  All fifteen have the same frame: argument count,   *)
(* validateArg per argument in index order, the active client, the         *)
(* conversion of the arguments (js.Value.Int panics on a non-number), the  *)
(* request, ops.Nonce unless nonce is -1, Get<Kind>Transaction, marshal.   *)
(***************************************************************************)
SignOp(op) ==
    CASE op = "signChangePubKey" ->
           [usage |-> "signChangePubKey requires 2 arguments: pubKey, nonce",
            argNames |-> <<"pubKey", "nonce">>, ints |-> {2}]
      [] op = "signCreateOrder" ->
           [usage |-> "signCreateOrder requires 11 arguments: marketIndex, clientOrderIndex, baseAmount, price, isAsk, orderType, timeInForce, reduceOnly, triggerPrice, orderExpiry, nonce",
            argNames |-> <<"marketIndex", "clientOrderIndex", "baseAmount", "price", "isAsk",
                           "orderType", "timeInForce", "reduceOnly", "triggerPrice",
                           "orderExpiry", "nonce">>,
            ints |-> 1..11]
      [] op = "signCancelOrder" ->
           [usage |-> "signCancelOrder requires 3 arguments: marketIndex, orderIndex, nonce",
            argNames |-> <<"marketIndex", "orderIndex", "nonce">>, ints |-> 1..3]
      [] op = "signWithdraw" ->
           [usage |-> "signWithdraw requires 2 arguments: usdcAmount, nonce",
            argNames |-> <<"usdcAmount", "nonce">>, ints |-> 1..2]
      [] op = "signCreateSubAccount" ->
           [usage |-> "signCreateSubAccount requires 1 argument: nonce",
            argNames |-> <<"nonce">>, ints |-> {1}]
      [] op = "signCancelAllOrders" ->
           [usage |-> "signCancelAllOrders requires 3 arguments: timeInForce, time, nonce",
            argNames |-> <<"timeInForce", "time", "nonce">>, ints |-> 1..3]
      [] op = "signModifyOrder" ->
           [usage |-> "signModifyOrder requires 6 arguments: marketIndex, index, baseAmount, price, triggerPrice, nonce",
            argNames |-> <<"marketIndex", "index", "baseAmount", "price", "triggerPrice", "nonce">>,
            ints |-> 1..6]
      [] op = "signTransfer" ->
           [usage |-> "signTransfer requires 5 arguments: toAccountIndex, usdcAmount, fee, memo, nonce",
            argNames |-> <<"toAccountIndex", "usdcAmount", "fee", "memo", "nonce">>,
            ints |-> {1, 2, 3, 5}]
      [] op = "signCreatePublicPool" ->
           [usage |-> "signCreatePublicPool requires 4 arguments: operatorFee, initialTotalShares, minOperatorShareRate, nonce",
            argNames |-> <<"operatorFee", "initialTotalShares", "minOperatorShareRate", "nonce">>,
            ints |-> 1..4]
      [] op = "signUpdatePublicPool" ->
           [usage |-> "signUpdatePublicPool requires 5 arguments: publicPoolIndex, status, operatorFee, minOperatorShareRate, nonce",
            argNames |-> <<"publicPoolIndex", "status", "operatorFee", "minOperatorShareRate", "nonce">>,
            ints |-> 1..5]
      [] op = "signMintShares" ->
           [usage |-> "signMintShares requires 3 arguments: publicPoolIndex, shareAmount, nonce",
            argNames |-> <<"publicPoolIndex", "shareAmount", "nonce">>, ints |-> 1..3]
      [] op = "signBurnShares" ->
           [usage |-> "signBurnShares requires 3 arguments: publicPoolIndex, shareAmount, nonce",
            argNames |-> <<"publicPoolIndex", "shareAmount", "nonce">>, ints |-> 1..3]
      [] op = "signUpdateLeverage" ->
           [usage |-> "signUpdateLeverage requires 4 arguments: marketIndex, initialMarginFraction, marginMode, nonce",
            argNames |-> <<"marketIndex", "initialMarginFraction", "marginMode", "nonce">>,
            ints |-> 1..4]
      [] op = "signUpdateMargin" ->
           [usage |-> "signUpdateMargin requires 4 arguments: marketIndex, usdcAmount, direction, nonce",
            argNames |-> <<"marketIndex", "usdcAmount", "direction", "nonce">>, ints |-> 1..4]
      [] op = "signCreateGroupedOrders" ->
           [usage |-> "signCreateGroupedOrders requires 4 arguments: groupingType, ordersJSON, expiredAt, nonce",
            argNames |-> <<"groupingType", "ordersJSON", "expiredAt", "nonce">>,
            ints |-> {1, 3, 4}]

SignOps ==
    {"signChangePubKey", "signCreateOrder", "signCancelOrder", "signWithdraw",
     "signCreateSubAccount", "signCancelAllOrders", "signModifyOrder", "signTransfer",
     "signCreatePublicPool", "signUpdatePublicPool", "signMintShares", "signBurnShares",
     "signUpdateLeverage", "signUpdateMargin", "signCreateGroupedOrders"}

\* Faulty variant of SignEntry: the arguments are converted before the
\* client is looked at.
SignEntryConvertsFirst(op, args, tc) ==
    LET d == SignOp(op)
        verr == validateArgs(args, d.argNames)
    IN  IF Len(args) # Len(d.argNames) THEN [stop |-> TRUE, out |-> Failed(d.usage)]
        ELSE IF verr # NoError THEN [stop |-> TRUE, out |-> Failed(verr)]
        ELSE IF \E i \in d.ints : IntPanics(args[i]) THEN [stop |-> TRUE, out |-> Panicked]
        ELSE IF tc = nil THEN [stop |-> TRUE, out |-> Failed(NoClientError)]
        ELSE [stop |-> FALSE, out |-> Outcome0]

\* The checks a sign function makes before it reads its arguments:
\* [stop |-> TRUE, out |-> what it returns] or [stop |-> FALSE].
SignEntry(op, args, tc) ==
    LET d == SignOp(op)
        verr == validateArgs(args, d.argNames)
    IN  IF Len(args) # Len(d.argNames) THEN [stop |-> TRUE, out |-> Failed(d.usage)]
        ELSE IF verr # NoError THEN [stop |-> TRUE, out |-> Failed(verr)]
        ELSE IF tc = nil THEN [stop |-> TRUE, out |-> Failed(NoClientError)]
        ELSE IF \E i \in d.ints : IntPanics(args[i]) THEN [stop |-> TRUE, out |-> Panicked]
        ELSE [stop |-> FALSE, out |-> Outcome0]

\* Faulty variant: ops.Nonce = &nonce whatever the nonce is.
TransactOptsAlwaysNonce(nonce, expiredAt) ==
    [hasNonce |-> TRUE, Nonce |-> nonce, ExpiredAt |-> expiredAt]

\* ops := new(types.TransactOpts); if nonce != -1 { ops.Nonce = &nonce }
TransactOpts(nonce, expiredAt) ==
    [hasNonce |-> nonce # -1, Nonce |-> nonce, ExpiredAt |-> expiredAt]

\* Faulty variant of SignAndReturn: attaching MessageToSign loses the
\* signature.
SignAndReturnDropsSig(kind, req, ops, tc, env, attach) ==
    LET response(t) ==
            IF t.panic THEN GoNil
            ELSE IF t.err.isErr
            THEN Json("failed to create transaction: " \o t.err.msg, NoResult)
            ELSE IF attach
            THEN Json("", [t.tx EXCEPT !.MessageToSign = "L1 signature body", !.Sig = <<>>])
            ELSE Json("", t.tx)
        outcome(t) ==
            [ret |-> response(t), nonceCalls |-> t.nonceCalls, fetches |-> t.fetches,
             built |-> TRUE, now |-> NoTime, req |-> req,
             answer |-> IF t.nonceCalls > 0 THEN env.fr ELSE NoAnswer]
    IN  outcome(GetTransaction(tc, kind, req, ops, env.fr, env.kindOk))

\* tx, err := txClient.Get<Kind>Transaction(txInfo, ops) and the response.
\* attach: the function adds MessageToSign to the marshalled transaction.
SignAndReturn(kind, req, ops, tc, env, attach) ==
    LET response(t) ==
            IF t.panic THEN GoNil
            ELSE IF t.err.isErr
            THEN Json("failed to create transaction: " \o t.err.msg, NoResult)
            ELSE IF attach
            THEN Json("", [t.tx EXCEPT !.MessageToSign = "L1 signature body"])
            ELSE Json("", t.tx)
        outcome(t) ==
            [ret |-> response(t), nonceCalls |-> t.nonceCalls, fetches |-> t.fetches,
             built |-> TRUE, now |-> NoTime, req |-> req,
             answer |-> IF t.nonceCalls > 0 THEN env.fr ELSE NoAnswer]
    IN  outcome(GetTransaction(tc, kind, req, ops, env.fr, env.kindOk))


\* hexutil.Decode on the strings the model draws: [ok, bytes, n] where
\* bytes names the decoded byte string and n is its length
hexutilDecode(str) ==
    CASE str = "0xPUB40" -> [ok |-> TRUE, bytes |-> "PUB40", n |-> 40]
      [] str = "0xPUB20" -> [ok |-> TRUE, bytes |-> "PUB20", n |-> 20]
      [] str = "0xMEMO64" -> [ok |-> TRUE, bytes |-> "MEMO64", n |-> 32]
      [] OTHER -> [ok |-> FALSE, bytes |-> "", n |-> 0]

\* len(memoStr) for the memo strings the model draws; "MEMO64" and "GGGG64"
\* stand for 64-character strings, the second with a non-hex character
MemoLen(memoStr) ==
    CASE memoStr = "" -> 0
      [] memoStr = "MEMO64" -> 64
      [] memoStr = "GGGG64" -> 64
      [] OTHER -> 5

ZeroMemo == "0*32"

\* Faulty variant of TransferMemo: a memo of the wrong length is replaced by
\* the zero memo.
TransferMemoFallsBackToZero(memoStr) ==
    LET d == hexutilDecode("0x" \o memoStr)
    IN  IF memoStr = "" THEN [err |-> NoError, memo |-> ZeroMemo]
        ELSE IF MemoLen(memoStr) # 64 THEN [err |-> NoError, memo |-> ZeroMemo]
        ELSE IF ~d.ok THEN [err |-> "invalid hex memo", memo |-> ZeroMemo]
        ELSE IF d.n # 32 THEN [err |-> "memo must be exactly 32 bytes", memo |-> ZeroMemo]
        ELSE [err |-> NoError, memo |-> d.bytes]

\* the memo signTransfer puts in the request (sharedlib_syscall.go:966-990):
\* [err |-> the error it returns instead, memo |-> the 32 bytes]
TransferMemo(memoStr) ==
    LET d == hexutilDecode("0x" \o memoStr)
    IN  IF memoStr = "" THEN [err |-> NoError, memo |-> ZeroMemo]
        ELSE IF MemoLen(memoStr) # 64
        THEN [err |-> "memo expected to be 64 hex characters (32 bytes) or empty string",
              memo |-> ZeroMemo]
        ELSE IF ~d.ok THEN [err |-> "invalid hex memo", memo |-> ZeroMemo]
        ELSE IF d.n # 32 THEN [err |-> "memo must be exactly 32 bytes", memo |-> ZeroMemo]
        ELSE [err |-> NoError, memo |-> d.bytes]

\* json.Unmarshal of ordersJSON into []orderRequest for the strings the
\* model draws.  An order is written by its orderExpiry only: the other
\* fields are copied to the request unchanged.
OrderReq(orderExpiry) ==
    [MarketIndex |-> 0, BaseAmount |-> 1, Price |-> 1, IsAsk |-> 0, Type |-> 0,
     TimeInForce |-> 0, ReduceOnly |-> 0, TriggerPrice |-> 0, OrderExpiry |-> orderExpiry]

jsonUnmarshalOrders(ordersJSON) ==
    CASE ordersJSON = "[]" -> [ok |-> TRUE, orders |-> <<>>]
      [] ordersJSON = "[e]" -> [ok |-> TRUE, orders |-> <<OrderReq(1500)>>]
      [] ordersJSON = "[e,d]" -> [ok |-> TRUE, orders |-> <<OrderReq(1500), OrderReq(-1)>>]
      [] ordersJSON = "[d,e,e]" ->
           [ok |-> TRUE, orders |-> <<OrderReq(-1), OrderReq(1500), OrderReq(1500)>>]
      [] ordersJSON = "[e,e,e,e]" ->
           [ok |-> TRUE,
            orders |-> <<OrderReq(1500), OrderReq(1500), OrderReq(1500), OrderReq(1500)>>]
      [] OTHER -> [ok |-> FALSE, orders |-> <<>>]

\* orderExpiry as the request carries it (sharedlib_syscall.go:441, 1671)
OrderExpiryOf(orderExpiry, now) ==
    IF orderExpiry = -1 THEN OrderExpiryDefault(now) ELSE Millis(orderExpiry)

\* Faulty variant of GroupedOrders: the number of orders is not checked.
GroupedOrdersAnyNumber(orderRequests, now) ==
    LET order(o) == [MarketIndex |-> o.MarketIndex, ClientOrderIndex |-> 0,
                     BaseAmount |-> o.BaseAmount, Price |-> o.Price,
                     IsAsk |-> o.IsAsk, Type |-> o.Type,
                     TimeInForce |-> o.TimeInForce, ReduceOnly |-> o.ReduceOnly,
                     TriggerPrice |-> o.TriggerPrice,
                     OrderExpiry |-> OrderExpiryOf(o.OrderExpiry, now)]
    IN  [err |-> NoError,
         orders |-> [i \in 1..Len(orderRequests) |-> order(orderRequests[i])]]

\* the orders signCreateGroupedOrders puts in the request
\* (sharedlib_syscall.go:1661-1688): [err |-> the error it returns instead,
\* orders |-> the list]
GroupedOrders(orderRequests, now) ==
    LET order(o) == [MarketIndex |-> o.MarketIndex, ClientOrderIndex |-> 0,
                     BaseAmount |-> o.BaseAmount, Price |-> o.Price,
                     IsAsk |-> o.IsAsk, Type |-> o.Type,
                     TimeInForce |-> o.TimeInForce, ReduceOnly |-> o.ReduceOnly,
                     TriggerPrice |-> o.TriggerPrice,
                     OrderExpiry |-> OrderExpiryOf(o.OrderExpiry, now)]
    IN  IF Len(orderRequests) < 2 \/ Len(orderRequests) > 3
        THEN [err |-> "grouped orders must contain 2 or 3 orders", orders |-> <<>>]
        ELSE [err |-> NoError,
              orders |-> [i \in 1..Len(orderRequests) |-> order(orderRequests[i])]]

\* The request a sign function builds from its (converted) arguments:
\* [err |-> the error it returns instead, req |-> the request].
SignRequest(op, a, now) ==
    LET ok(req) == [err |-> NoError, req |-> req]
        bad(err) == [err |-> err, req |-> NoReq]
    IN  CASE op = "signChangePubKey" ->
               LET d == hexutilDecode(String(a[1]))
               IN  IF ~d.ok THEN bad("invalid public key format")
                   ELSE IF d.n # 40 THEN bad("invalid pub key length. expected 40")
                   ELSE ok([PubKey |-> d.bytes])
          [] op = "signCreateOrder" ->
               ok([MarketIndex |-> Uint8(a[1].n), ClientOrderIndex |-> Int64(a[2].n),
                   BaseAmount |-> Int64(a[3].n), Price |-> Uint32(a[4].n),
                   IsAsk |-> Uint8(a[5].n), Type |-> Uint8(a[6].n),
                   TimeInForce |-> Uint8(a[7].n), ReduceOnly |-> Uint8(a[8].n),
                   TriggerPrice |-> Uint32(a[9].n),
                   OrderExpiry |-> OrderExpiryOf(Int64(a[10].n), now)])
          [] op = "signCancelOrder" ->
               ok([MarketIndex |-> Uint8(a[1].n), Index |-> Int64(a[2].n)])
          [] op = "signWithdraw" -> ok([USDCAmount |-> a[1].n])
          [] op = "signCreateSubAccount" -> ok([kind |-> "empty"])
          [] op = "signCancelAllOrders" ->
               ok([TimeInForce |-> Uint8(a[1].n), Time |-> Int64(a[2].n)])
          [] op = "signModifyOrder" ->
               ok([MarketIndex |-> Uint8(a[1].n), Index |-> Int64(a[2].n),
                   BaseAmount |-> Int64(a[3].n), Price |-> Uint32(a[4].n),
                   TriggerPrice |-> Uint32(a[5].n)])
          [] op = "signTransfer" ->
               LET m == TransferMemo(String(a[4]))
               IN  IF m.err # NoError THEN bad(m.err)
                   ELSE ok([ToAccountIndex |-> Int64(a[1].n), USDCAmount |-> Int64(a[2].n),
                            Fee |-> Int64(a[3].n), Memo |-> m.memo])
          [] op = "signCreatePublicPool" ->
               ok([OperatorFee |-> Int64(a[1].n), InitialTotalShares |-> Int64(a[2].n),
                   MinOperatorShareRate |-> Int64(a[3].n)])
          [] op = "signUpdatePublicPool" ->
               ok([PublicPoolIndex |-> Int64(a[1].n), Status |-> Uint8(a[2].n),
                   OperatorFee |-> Int64(a[3].n), MinOperatorShareRate |-> Int64(a[4].n)])
          [] op = "signMintShares" ->
               ok([PublicPoolIndex |-> Int64(a[1].n), ShareAmount |-> Int64(a[2].n)])
          [] op = "signBurnShares" ->
               ok([PublicPoolIndex |-> Int64(a[1].n), ShareAmount |-> Int64(a[2].n)])
          [] op = "signUpdateLeverage" ->
               ok([MarketIndex |-> Uint8(a[1].n), InitialMarginFraction |-> Uint16(a[2].n),
                   MarginMode |-> Uint8(a[3].n)])
          [] op = "signUpdateMargin" ->
               ok([MarketIndex |-> Uint8(a[1].n), USDCAmount |-> Int64(a[2].n),
                   Direction |-> Uint8(a[3].n)])
          [] op = "signCreateGroupedOrders" ->
               LET p == jsonUnmarshalOrders(String(a[2]))
                   g == GroupedOrders(p.orders, now)
               IN  IF ~p.ok THEN bad("failed to parse ordersJSON")
                   ELSE IF g.err # NoError THEN bad(g.err)
                   ELSE ok([GroupingType |-> Uint8(a[1].n), Orders |-> g.orders])

\* the transaction kind a sign function asks the client for
KindOf(op) ==
    CASE op = "signChangePubKey" -> "ChangePubKey"
      [] op = "signCreateOrder" -> "CreateOrder"
      [] op = "signCancelOrder" -> "CancelOrder"
      [] op = "signWithdraw" -> "Withdraw"
      [] op = "signCreateSubAccount" -> "CreateSubAccount"
      [] op = "signCancelAllOrders" -> "CancelAllOrders"
      [] op = "signModifyOrder" -> "ModifyOrder"
      [] op = "signTransfer" -> "Transfer"
      [] op = "signCreatePublicPool" -> "CreatePublicPool"
      [] op = "signUpdatePublicPool" -> "UpdatePublicPool"
      [] op = "signMintShares" -> "MintShares"
      [] op = "signBurnShares" -> "BurnShares"
      [] op = "signUpdateLeverage" -> "UpdateLeverage"
      [] op = "signUpdateMargin" -> "UpdateMargin"
      [] op = "signCreateGroupedOrders" -> "CreateGroupedOrders"

\* whether the function reads the clock: an orderExpiry of -1
ReadsClock(op, a) ==
    CASE op = "signCreateOrder" -> a[10].n = -1
      [] op = "signCreateGroupedOrders" ->
           LET p == jsonUnmarshalOrders(String(a[2]))
           IN  p.ok /\ Len(p.orders) \in 2..3
               /\ \E i \in 1..Len(p.orders) : p.orders[i].OrderExpiry = -1
      [] OTHER -> FALSE

\* A sign function: op names it, env = [now, fr, kindOk] is what the clock,
\* the network and the kind's own Validate answer during the call.
signCall(op, args, tc, env) ==
    LET nonce == Int64(args[Len(args)].n)
        \* signCreateGroupedOrders: if expiredAt != -1 { ops.ExpiredAt = expiredAt }
        expiredAt == IF op = "signCreateGroupedOrders" /\ args[3].n # -1
                     THEN Int64(args[3].n) ELSE 0
        build(r) ==
            IF r.err # NoError THEN Failed(r.err)
            ELSE [SignAndReturn(KindOf(op), r.req, TransactOpts(nonce, expiredAt), tc, env,
                                op \in {"signChangePubKey", "signTransfer"})
                      EXCEPT !.now = IF ReadsClock(op, args) THEN env.now ELSE NoTime]
        enter(e) == IF e.stop THEN e.out ELSE build(SignRequest(op, args, env.now))
    IN  enter(SignEntry(op, args, tc))


(***************************************************************************)
(* The calls the host makes and what the environment answers.              *)
(***************************************************************************)
\* the largest nonce argument, and the nonce the server hands out
MaxNonceArg == 1
ServerNonce == 7
\* the largest apiKeyIndex a createClient call registers (as a uint8)
MaxKeySlot == 1
\* the number of concurrent callers of one SignerWASM instance
MaxCallers == 2

NonceArgs == -1..MaxNonceArg
\* 256 is a host integer outside the uint8 range
ApiKeyIndexArgs == 0..MaxKeySlot \cup {256}
\* "" makes NewHTTPClient return nil; "%zz" is an endpoint url.Parse rejects
Urls == {"https://api", ""}
AllUrls == Urls \cup {"%zz"}
Times == {[sec |-> 1000, ms |-> 1], [sec |-> 1700000000, ms |-> 999]}

\* what wasmFetch returns when the request fails
FetchErrors ==
    {Delivered(TextBody("bad gateway"), 502),
     TextFailed(StatusOK),
     FetchFailed("TypeError"),
     FetchTimeout,
     FetchUnavailable}

\* api/v1/nextNonce
NonceFetchResults ==
    FetchErrors \cup {Delivered(JsonBody(CodeOK, "", ServerNonce, <<>>), StatusOK),
                      Delivered(JsonBody(21100, "account not found", 0, <<>>), StatusOK)}

\* api/v1/apikeys
ApiKeyFetchResults ==
    FetchErrors \cup {Delivered(TextBody("<html>"), StatusOK)}
    \cup {Delivered(JsonBody(CodeOK, "", 0, keys), StatusOK) :
              keys \in {<<>>, <<"pub:0xA">>, <<"pub:0xB">>}}

\* args with the i-th argument replaced by v
With(args, i, v) == [args EXCEPT ![i] = v]

\* malformed variants of a well-formed argument list: the first argument
\* null, the last undefined, both at once, a string where the first number
\* is expected, the last argument missing
Malformed(args, ints) ==
    {With(args, 1, Null), With(args, Len(args), Undefined),
     With(With(args, 1, Null), Len(args), Undefined),
     With(args, CHOOSE i \in ints : \A j \in ints : i <= j, Str("x")),
     SubSeq(args, 1, Len(args) - 1)}

\* n arguments Num(1) followed by the nonce
Ones(n, nonce) == [i \in 1..(n + 1) |-> IF i = n + 1 THEN Num(nonce) ELSE Num(1)]

\* the well-formed argument lists of a sign function
WellFormed ==
  [op \in SignOps |->
    CASE op = "signChangePubKey" ->
           {<<Str("0xPUB40"), Num(n)>> : n \in NonceArgs}
           \cup {<<Str("0xPUB20"), Num(0)>>, <<Str("nothex"), Num(0)>>}
      [] op = "signCreateOrder" ->
           {With(Ones(10, n), 10, Num(1500)) : n \in NonceArgs}
           \cup {With(Ones(10, 0), 10, Num(-1))}
      [] op = "signCancelOrder" -> {Ones(2, n) : n \in NonceArgs}
      [] op = "signWithdraw" -> {Ones(1, n) : n \in NonceArgs}
      [] op = "signCreateSubAccount" -> {Ones(0, n) : n \in NonceArgs}
      [] op = "signCancelAllOrders" -> {Ones(2, n) : n \in NonceArgs}
      [] op = "signModifyOrder" -> {Ones(5, n) : n \in NonceArgs}
      [] op = "signTransfer" ->
           {With(Ones(4, n), 4, Str("MEMO64")) : n \in NonceArgs}
           \cup {With(Ones(4, 0), 4, Str(m)) : m \in {"", "GGGG64", "short"}}
      [] op = "signCreatePublicPool" -> {Ones(3, n) : n \in NonceArgs}
      [] op = "signUpdatePublicPool" -> {Ones(4, n) : n \in NonceArgs}
      [] op = "signMintShares" -> {Ones(2, n) : n \in NonceArgs}
      [] op = "signBurnShares" -> {Ones(2, n) : n \in NonceArgs}
      [] op = "signUpdateLeverage" -> {Ones(3, n) : n \in NonceArgs}
      [] op = "signUpdateMargin" ->
           {<<Num(0), Num(1), Num(0), Num(n)>> : n \in NonceArgs \cup {-2}}
           \cup {<<Num(m), Num(u), Num(d), Num(0)>> :
                     m \in {0, 255}, u \in {0, 1}, d \in {0, 2}}
      [] op = "signCreateGroupedOrders" ->
           {<<Num(1), Str("[e,d]"), Num(e), Num(n)>> :
                e \in {-1, 2, MaxTimestamp + 1}, n \in {-1, MaxNonceArg}}
           \cup {<<Num(1), Str(j), Num(-1), Num(0)>> :
                     j \in {"{", "[]", "[e]", "[d,e,e]", "[e,e,e,e]"}}]

\* the well-formed list whose malformed variants the host passes
Base == [op \in SignOps |-> CHOOSE a \in WellFormed[op] : a[Len(a)] = Num(0)]

\* the argument lists the host passes to a sign function
SignArgs == [op \in SignOps |-> WellFormed[op] \cup Malformed(Base[op], SignOp(op).ints)]

\* the few of them it passes between createClient and switchAPIKey calls:
\* an explicit nonce, the sentinel, a null argument
FewSignArgs ==
    [op \in SignOps |->
        {Base[op], With(Base[op], Len(Base[op]), Num(-1)), With(Base[op], 1, Null)}]
\* and the answers of the two endpoints there
FewFetchResults == {FetchTimeout}
FewApiKeyFetchResults ==
    {Delivered(JsonBody(CodeOK, "", 0, <<"pub:0xA">>), StatusOK), FetchTimeout}

CreateClientArgs ==
    {<<Str("https://api"), Str("0xA"), Num(1), Num(i), Num(1)>> : i \in ApiKeyIndexArgs}
    \cup {<<Str(""), Str("0xA"), Num(1), Num(0), Num(1)>>,
          <<Str("https://api"), Str("zz"), Num(1), Num(0), Num(1)>>,
          <<Str("https://api"), Str("0xA"), Num(1), Num(0), Num(0)>>}
    \cup Malformed(<<Str("https://api"), Str("0xA"), Num(1), Num(0), Num(1)>>, {3, 4, 5})

SwitchAPIKeyArgs ==
    {<<Num(i)>> : i \in ApiKeyIndexArgs} \cup Malformed(<<Num(0)>>, {1})

CheckClientArgs ==
    {<<Num(i), Num(a)>> : i \in ApiKeyIndexArgs, a \in {1, 2}}
    \cup Malformed(<<Num(0), Num(1)>>, {1, 2}) \cup {<<>>}

GenerateAPIKeyArgs == {<<>>, <<Null>>, <<Str("")>>, <<Str("seed one")>>, <<Str("seed two")>>}

CreateAuthTokenArgs == {<<>>, <<Num(0)>>, <<Num(5000)>>, <<Str("x")>>, <<Null>>}

(***************************************************************************)
(* The clock, the network, the random source and the kind's own Validate   *)
(* answer only a call that reaches them; a call that does not is given     *)
(* one fixed answer, which it never reads.                                 *)
(***************************************************************************)
NoNow == CHOOSE t \in Times : TRUE

\* whether the sign call gets as far as Get<Kind>Transaction
Builds(op, args, tc) ==
    ~SignEntry(op, args, tc).stop /\ SignRequest(op, args, NoNow).err = NoError

SignEnvs(op, args, tc, fetchResults) ==
    LET resolves(r) == ~r.panic /\ ~r.err.isErr
        envs(builds, sentinel) ==
            LET nows == IF builds /\ ReadsClock(op, args) THEN Times ELSE {NoNow}
                frs == IF sentinel THEN fetchResults ELSE {FetchUnavailable}
                validates(fr) ==
                    /\ builds
                    /\ op # "signUpdateMargin"
                    /\ ~sentinel \/ resolves(GetNextNonce(tc.apiClient, fr))
            IN  {[now |-> now, fr |-> fr, kindOk |-> TRUE] : now \in nows, fr \in frs}
                \cup {[now |-> now, fr |-> fr, kindOk |-> FALSE] :
                          now \in nows, fr \in {f \in frs : validates(f)}}
        reached(builds) == envs(builds, builds /\ args[Len(args)].n = -1)
    IN  reached(Builds(op, args, tc))

\* whether checkClient gets as far as GetApiKey
AsksApiKeys(args, backup) ==
    /\ Len(args) = 2
    /\ \A i \in 1..2 : ~IntPanics(args[i])
    /\ Uint8(args[1].n) \in DOMAIN backup
    /\ backup[Uint8(args[1].n)].apiKeyIndex = Uint8(args[1].n)
    /\ backup[Uint8(args[1].n)].accountIndex = Int64(args[2].n)

(***************************************************************************)
(* State                                                                   *)
(***************************************************************************)
NoCall == [op |-> "none", args |-> <<>>, out |-> Outcome0]
\* created: the apiKeyIndex arguments of the successful createClient calls;
\* lastSwitch: the index the last successful switchAPIKey looked up;
\* active: the index the last successful createClient or switchAPIKey used
\* (the last two are empty until there was such a call)
Hist0 == [created |-> {}, lastSwitch |-> {}, active |-> {}]
NoTxInfo ==
    [AccountIndex |-> 0, ApiKeyIndex |-> 0, MarketIndex |-> 0, USDCAmount |-> 0,
     Direction |-> 0, Nonce |-> 0, ExpiredAt |-> 0, Sig |-> "", SignedHash |-> ""]
NoOut == [op |-> "none", err |-> NoError]
\* no wasmFetchFetch call made yet: no promise, no js.Func registered, and
\* the zero fetchResult.  textInTime: the reaction of the text promise ran
\* while the call was waiting and before the thirty seconds had passed
NoFetch ==
    [pc |-> "idle", method |-> "", fetchState |-> "none", fetchReacted |-> FALSE,
     status |-> 0, message |-> "", textState |-> "none", textReacted |-> FALSE,
     text |-> NoBody, textInTime |-> FALSE, funcs |-> {}, resultChan |-> <<>>,
     timer |-> FALSE,
     out |-> [body |-> NoBody, status |-> 0, err |-> NilErr, fetched |-> FALSE]]
\* the instance getInstance makes: wasmReady = false, loadingPromise = null.
\* started counts the calls of initializeWASM, polls the 100 ms waits;
\* callers holds, for each caller of a method, where it is in ensureReady
\* and the loading promise it awaits (0: none)
NoSigner ==
    [wasmReady |-> FALSE, loadingPromise |-> "null", started |-> 0, pc |-> "none",
     running |-> FALSE, exported |-> FALSE, retries |-> 0, polls |-> 0,
     callers |-> [c \in 1..MaxCallers |-> [at |-> "out", awaits |-> 0]]]

Init ==
    /\ txClient = nil
    /\ backupTxClients = EmptyMap
    /\ last = NoCall
    /\ hist = Hist0
    /\ txInfo = NoTxInfo
    /\ txOut = NoOut
    /\ fetch = NoFetch
    /\ signer = NoSigner


(***************************************************************************)
(* Actions: one call of an exported function.                              *)
(***************************************************************************)
\* one call of createClient, its arguments drawn from argLists
CreateClient(argLists) ==
    \E args \in argLists :
        LET r == createClientCall(args, txClient, backupTxClients)
        IN  /\ txClient' = r.txClient
            /\ backupTxClients' = r.backup
            /\ last' = [op |-> "createClient", args |-> args, out |-> r.out]
            /\ hist' = IF r.ok
                       THEN [hist EXCEPT !.created = @ \cup {args[4].n},
                                         !.active = {Uint8(args[4].n)}]
                       ELSE hist
            /\ UNCHANGED <<txInfo, txOut, fetch, signer>>

createClient == CreateClient(CreateClientArgs)

switchAPIKey ==
    \E args \in SwitchAPIKeyArgs :
        LET r == switchAPIKeyCall(args, txClient, backupTxClients)
        IN  /\ txClient' = r.txClient
            /\ last' = [op |-> "switchAPIKey", args |-> args, out |-> r.out]
            /\ hist' = IF r.ok
                       THEN [hist EXCEPT !.lastSwitch = {Uint8(args[1].n)},
                                         !.active = {Uint8(args[1].n)}]
                       ELSE hist
            /\ UNCHANGED <<backupTxClients, txInfo, txOut, fetch, signer>>

\* one call of checkClient, the answer of the api-key endpoint drawn from
\* fetchResults
CheckClient(fetchResults) ==
    \E args \in CheckClientArgs :
      \E fr \in IF AsksApiKeys(args, backupTxClients) THEN fetchResults
                ELSE {FetchUnavailable} :
        /\ last' = [op |-> "checkClient", args |-> args,
                    out |-> checkClientCall(args, backupTxClients, fr)]
        /\ UNCHANGED <<txClient, backupTxClients, hist, txInfo, txOut, fetch, signer>>

checkClient == CheckClient(FewApiKeyFetchResults)

generateAPIKey ==
    \E args \in GenerateAPIKeyArgs :
      \E rnd \in IF args \in {<<>>, <<Null>>, <<Str("")>>} THEN ValidPrivateKeys
                 ELSE {"0xA"} :
        /\ last' = [op |-> "generateAPIKey", args |-> args,
                    out |-> generateAPIKeyCall(args, rnd)]
        /\ UNCHANGED <<txClient, backupTxClients, hist, txInfo, txOut, fetch, signer>>

createAuthToken ==
    \E args \in CreateAuthTokenArgs :
      \E now \in IF args \in {<<>>, <<Num(0)>>} THEN Times ELSE {NoNow} :
        /\ last' = [op |-> "createAuthToken", args |-> args,
                    out |-> createAuthTokenCall(args, txClient, now)]
        /\ UNCHANGED <<txClient, backupTxClients, hist, txInfo, txOut, fetch, signer>>

\* Faulty variant of the sign functions: a call that returns an error
\* clears the active client.
SignClearsOnError(op, argLists, fetchResults) ==
    \E args \in argLists :
        \E env \in SignEnvs(op, args, txClient, fetchResults) :
            LET out == signCall(op, args, txClient, env)
            IN  /\ last' = [op |-> op, args |-> args, out |-> out]
                /\ txClient' = IF out.ret.error # "" THEN nil ELSE txClient
                /\ UNCHANGED <<backupTxClients, hist, txInfo, txOut, fetch, signer>>

\* one call of the sign function op, its arguments drawn from argLists and
\* the answer of the nonce endpoint from fetchResults
Sign(op, argLists, fetchResults) ==
    \E args \in argLists :
        \E env \in SignEnvs(op, args, txClient, fetchResults) :
            /\ last' = [op |-> op, args |-> args, out |-> signCall(op, args, txClient, env)]
            /\ UNCHANGED <<txClient, backupTxClients, hist, txInfo, txOut, fetch, signer>>

signChangePubKey == Sign("signChangePubKey", FewSignArgs["signChangePubKey"], FewFetchResults)
signCreateOrder == Sign("signCreateOrder", FewSignArgs["signCreateOrder"], FewFetchResults)
signCancelOrder == Sign("signCancelOrder", FewSignArgs["signCancelOrder"], FewFetchResults)
signWithdraw == Sign("signWithdraw", FewSignArgs["signWithdraw"], FewFetchResults)
signCreateSubAccount == Sign("signCreateSubAccount", FewSignArgs["signCreateSubAccount"], FewFetchResults)
signCancelAllOrders == Sign("signCancelAllOrders", FewSignArgs["signCancelAllOrders"], FewFetchResults)
signModifyOrder == Sign("signModifyOrder", FewSignArgs["signModifyOrder"], FewFetchResults)
signTransfer == Sign("signTransfer", FewSignArgs["signTransfer"], FewFetchResults)
signCreatePublicPool == Sign("signCreatePublicPool", FewSignArgs["signCreatePublicPool"], FewFetchResults)
signUpdatePublicPool == Sign("signUpdatePublicPool", FewSignArgs["signUpdatePublicPool"], FewFetchResults)
signMintShares == Sign("signMintShares", FewSignArgs["signMintShares"], FewFetchResults)
signBurnShares == Sign("signBurnShares", FewSignArgs["signBurnShares"], FewFetchResults)
signUpdateLeverage == Sign("signUpdateLeverage", FewSignArgs["signUpdateLeverage"], FewFetchResults)
signUpdateMargin == Sign("signUpdateMargin", FewSignArgs["signUpdateMargin"], FewFetchResults)
signCreateGroupedOrders ==
    Sign("signCreateGroupedOrders", FewSignArgs["signCreateGroupedOrders"], FewFetchResults)

(***************************************************************************)
(* Spec: the host calls the exported functions in any order.               *)
(***************************************************************************)
Next ==
    \/ createClient
    \/ switchAPIKey
    \/ checkClient
    \/ generateAPIKey
    \/ createAuthToken
    \/ signChangePubKey
    \/ signCreateOrder
    \/ signCancelOrder
    \/ signWithdraw
    \/ signCreateSubAccount
    \/ signCancelAllOrders
    \/ signModifyOrder
    \/ signTransfer
    \/ signCreatePublicPool
    \/ signUpdatePublicPool
    \/ signMintShares
    \/ signBurnShares
    \/ signUpdateLeverage
    \/ signUpdateMargin
    \/ signCreateGroupedOrders

Spec == Init /\ [][Next]_vars


(***************************************************************************)
(* SpecSign: the host has called createClient once and then signs and      *)
(* checks, with every argument list of SignArgs and every answer of the    *)
(* two endpoints.                                                          *)
(***************************************************************************)
FirstClientArgs ==
    {<<Str(u), Str("0xA"), Num(1), Num(i), Num(1)>> : u \in AllUrls, i \in 0..MaxKeySlot}
    \cup {<<Str("https://api"), Str("zz"), Num(1), Num(0), Num(1)>>}

InitSign ==
    \E args \in FirstClientArgs :
        LET r == createClientCall(args, nil, EmptyMap)
        IN  /\ txClient = r.txClient
            /\ backupTxClients = r.backup
            /\ last = [op |-> "createClient", args |-> args, out |-> r.out]
            /\ hist = IF r.ok
                      THEN [Hist0 EXCEPT !.created = {args[4].n}, !.active = {Uint8(args[4].n)}]
                      ELSE Hist0
            /\ txInfo = NoTxInfo
            /\ txOut = NoOut
            /\ fetch = NoFetch
            /\ signer = NoSigner

NextSign ==
    \/ Sign("signChangePubKey", SignArgs["signChangePubKey"], NonceFetchResults)
    \/ Sign("signCreateOrder", SignArgs["signCreateOrder"], NonceFetchResults)
    \/ Sign("signCancelOrder", SignArgs["signCancelOrder"], NonceFetchResults)
    \/ Sign("signWithdraw", SignArgs["signWithdraw"], NonceFetchResults)
    \/ Sign("signCreateSubAccount", SignArgs["signCreateSubAccount"], NonceFetchResults)
    \/ Sign("signCancelAllOrders", SignArgs["signCancelAllOrders"], NonceFetchResults)
    \/ Sign("signModifyOrder", SignArgs["signModifyOrder"], NonceFetchResults)
    \/ Sign("signTransfer", SignArgs["signTransfer"], NonceFetchResults)
    \/ Sign("signCreatePublicPool", SignArgs["signCreatePublicPool"], NonceFetchResults)
    \/ Sign("signUpdatePublicPool", SignArgs["signUpdatePublicPool"], NonceFetchResults)
    \/ Sign("signMintShares", SignArgs["signMintShares"], NonceFetchResults)
    \/ Sign("signBurnShares", SignArgs["signBurnShares"], NonceFetchResults)
    \/ Sign("signUpdateLeverage", SignArgs["signUpdateLeverage"], NonceFetchResults)
    \/ Sign("signUpdateMargin", SignArgs["signUpdateMargin"], NonceFetchResults)
    \/ Sign("signCreateGroupedOrders", SignArgs["signCreateGroupedOrders"], NonceFetchResults)
    \/ createAuthToken
    \/ CheckClient(ApiKeyFetchResults)

SpecSign == InitSign /\ [][NextSign]_vars


(***************************************************************************)
(* SpecTx: Validate and Hash applied to an L2UpdateMarginTxInfo whose      *)
(* fields are any values of their Go types around the declared ranges,     *)
(* unsigned or signed.                                                     *)
(***************************************************************************)
\* the largest Direction drawn (the struct documents 0 for LONG, 1 for SHORT)
MaxDirection == 2
\* int64 values: the ends of the range, the values around zero, and the
\* positive value congruent to the smallest one modulo ORDER
Int64s == {(0 - MaxInt64) - 1, -1, 0, 1, (ORDER - MaxInt64) - 1, MaxInt64}

TxInfos ==
    {[AccountIndex |-> a, ApiKeyIndex |-> k, MarketIndex |-> m, USDCAmount |-> u,
      Direction |-> d, Nonce |-> n, ExpiredAt |-> e, Sig |-> s[1], SignedHash |-> s[2]] :
        a \in (MinAccountIndex - 1)..(MaxAccountIndex + 1),
        k \in {0, MaxApiKeyIndex, MaxApiKeyIndex + 1},
        m \in {MinMarketIndex, MaxMarketIndex, MaxMarketIndex + 1},
        u \in Int64s,
        d \in 0..MaxDirection,
        n \in (MinNonce - 1)..(MinNonce + 1),
        e \in {-1, 0, MaxTimestamp, MaxTimestamp + 1},
        \* Sig and SignedHash before and after the record was signed
        s \in {<<"", "">>, <<"sig", "0xhash">>}}

InitTx ==
    /\ txClient = nil
    /\ backupTxClients = EmptyMap
    /\ last = NoCall
    /\ hist = Hist0
    /\ txInfo \in TxInfos
    /\ txOut = NoOut
    /\ fetch = NoFetch
    /\ signer = NoSigner

\* err := txInfo.Validate()
ValidateTx ==
    /\ txOut' = [op |-> "Validate", err |-> Validate(txInfo)]
    /\ UNCHANGED <<txClient, backupTxClients, last, hist, txInfo, fetch, signer>>

\* msgHash, err := txInfo.Hash(lighterChainId, extra...)
HashTx ==
    \E lighterChainId \in {1, 255}, extra \in {<<>>, <<FromUint32(1)>>} :
        /\ txOut' = [op |-> "Hash", chainId |-> lighterChainId, extra |-> extra,
                     out |-> Hash(txInfo, lighterChainId, extra)]
        /\ UNCHANGED <<txClient, backupTxClients, last, hist, txInfo, fetch, signer>>

NextTx ==
    \/ ValidateTx
    \/ HashTx

SpecTx == InitTx /\ [][NextTx]_vars


(***************************************************************************)
(* SpecAccount: the two places that bound the account index from below.    *)
(* The host calls createClient with the account index of a record whose    *)
(* other fields pass Validate, and Validate is applied to the record.      *)
(***************************************************************************)
AccountTxInfos ==
    {t \in TxInfos : Validate([t EXCEPT !.AccountIndex = MinAccountIndex + 1]) = NoError}

InitAccount ==
    /\ txClient = nil
    /\ backupTxClients = EmptyMap
    /\ last = NoCall
    /\ hist = Hist0
    /\ txInfo \in AccountTxInfos
    /\ txOut = NoOut
    /\ fetch = NoFetch
    /\ signer = NoSigner

NextAccount ==
    \/ ValidateTx
    \/ CreateClient({<<Str("https://api"), Str("0xA"), Num(1),
                       Num(txInfo.ApiKeyIndex), Num(txInfo.AccountIndex)>>})

SpecAccount == InitAccount /\ [][NextAccount]_vars


(***************************************************************************)
(* SpecHttp: the three requests of the HTTP client, called on the client   *)
(* of a TxClient with every answer wasmFetch can give.                     *)
(***************************************************************************)
\* answers with a body that is JSON with code OK but not of the result type
MistypedResults ==
    {Delivered([JsonBody(CodeOK, "", 0, <<>>) EXCEPT !.typed = FALSE], StatusOK)}

\* api/v1/sendTx
SendTxFetchResults ==
    FetchErrors \cup MistypedResults
    \cup {Delivered(TextBody("<html>"), StatusOK),
          Delivered([JsonBody(CodeOK, "", 0, <<>>) EXCEPT !.txHash = "0xTX"], StatusOK),
          Delivered(JsonBody(21500, "invalid signature", 0, <<>>), StatusOK)}

InitHttp ==
    /\ \E u \in AllUrls : txClient = NewTxClient(NewHTTPClient(u), "0xA", 1, 0, 1).client
    /\ backupTxClients = EmptyMap
    /\ last = NoCall
    /\ hist = Hist0
    /\ txInfo \in {[NoTxInfo EXCEPT !.AccountIndex = 1, !.USDCAmount = u,
                                    !.Sig = "sig", !.SignedHash = "0xhash"] : u \in {-1, 1}}
    /\ txOut = NoOut
    /\ fetch = NoFetch
    /\ signer = NoSigner

\* c.SetFatFingerProtection(enabled), http_client_wasm.go:30, on a client
\* that is not nil (on a nil client the assignment ends the program)
SetFatFingerProtection ==
    \E enabled \in BOOLEAN :
        /\ txClient.apiClient # nil
        /\ txClient' = [txClient EXCEPT !.apiClient.fatFingerProtection = enabled]
        /\ last' = [op |-> "SetFatFingerProtection", args |-> <<enabled>>, out |-> Outcome0]
        /\ UNCHANGED <<backupTxClients, hist, txInfo, txOut, fetch, signer>>

\* nonce, err := c.GetNextNonce(accountIndex, apiKeyIndex)
GetNextNonceCall ==
    \E fr \in NonceFetchResults \cup MistypedResults :
        /\ txOut' = [op |-> "GetNextNonce", fr |-> fr,
                     out |-> GetNextNonce(txClient.apiClient, fr)]
        /\ UNCHANGED <<txClient, backupTxClients, last, hist, txInfo, fetch, signer>>

\* keys, err := c.GetApiKey(accountIndex, apiKeyIndex)
GetApiKeyCall ==
    \E fr \in ApiKeyFetchResults \cup MistypedResults :
        /\ txOut' = [op |-> "GetApiKey", fr |-> fr,
                     out |-> GetApiKey(txClient.apiClient, fr)]
        /\ UNCHANGED <<txClient, backupTxClients, last, hist, txInfo, fetch, signer>>

\* txHash, err := c.SendRawTx(txInfo).  getTxInfo, which serializes the
\* record to JSON, is not among the sources: it gives the text of the
\* record or an error.
SendRawTxCall ==
    \E fr \in SendTxFetchResults,
       info \in {[text |-> [json |-> txInfo], err |-> NilErr],
                 [text |-> "", err |-> Err("json: unsupported value")]} :
        /\ txOut' = [op |-> "SendRawTx", fr |-> fr, info |-> info,
                     out |-> SendRawTx(txClient.apiClient, TxTypeL2UpdateMargin, info, fr)]
        /\ UNCHANGED <<txClient, backupTxClients, last, hist, txInfo, fetch, signer>>

NextHttp ==
    \/ SetFatFingerProtection
    \/ GetNextNonceCall
    \/ GetApiKeyCall
    \/ SendRawTxCall

SpecHttp == InitHttp /\ [][NextHttp]_vars

(***************************************************************************)
(* SpecFetch: one wasmFetchFetch call at a time, as a process.  The host   *)
(* settles the fetch promise and the text promise when it pleases (or      *)
(* never), runs the reaction of a settled promise later, as a job of its   *)
(* own, and thirty seconds pass.  funcs holds the js.Func values that are  *)
(* registered: invoking one that was released runs nothing (syscall/js     *)
(* reports 'call to released function').                                   *)
(***************************************************************************)
\* resultChan <- r, on the channel of capacity 1 made at line 49
Send(f, r) ==
    IF Len(f.resultChan) < 1 THEN [f EXCEPT !.resultChan = Append(@, r)] ELSE f

\* wasmFetchFetch down to the select: the check for fetch, the call of
\* fetch, the two handlers made and chained on the promise
wasmFetchFetch(method, fetchDefined) ==
    IF ~fetchDefined
    THEN [NoFetch EXCEPT !.pc = "returned", !.method = method, !.out = FetchUnavailable]
    ELSE [NoFetch EXCEPT !.pc = "select", !.method = method, !.fetchState = "pending",
                         !.funcs = {"responseHandler", "fetchErrorHandler"}]

\* responseHandler: reads the status, calls response.text(), makes the two
\* text handlers and chains them; its deferred Release calls (98, 109) run
\* as it returns
responseHandler(f) ==
    LET chained == [f EXCEPT !.textState = "pending",
                             !.funcs = @ \cup {"textHandler", "textErrorHandler"}]
    IN  [chained EXCEPT !.funcs = @ \ {"textHandler", "textErrorHandler"}]

textHandler(f) == Send(f, Delivered(f.text, f.status))

textErrorHandler(f) == Send(f, TextFailed(f.status))

\* a rejection without a message (or with an empty one) reads 'fetch error'
fetchErrorHandler(f) ==
    Send(f, FetchFailed(IF f.message # "" THEN f.message ELSE "fetch error"))

InitFetch ==
    /\ \E u \in AllUrls : txClient = NewTxClient(NewHTTPClient(u), "0xA", 1, 0, 1).client
    /\ backupTxClients = EmptyMap
    /\ last = NoCall
    /\ hist = Hist0
    /\ txInfo = NoTxInfo
    /\ txOut = NoOut
    /\ fetch = NoFetch
    /\ signer = NoSigner

\* body, statusCode, err := wasmFetch(method, url, headers, body), when no
\* call is waiting
WasmFetch ==
    \E method \in {"GET", "POST"}, fetchDefined \in BOOLEAN :
        /\ fetch.pc # "select"
        /\ fetch' = wasmFetchFetch(method, fetchDefined)
        /\ UNCHANGED <<txClient, backupTxClients, last, hist, txInfo, txOut, signer>>

\* the host settles a pending promise: fetch resolves with a response or
\* rejects; response.text() resolves with the body or rejects
Settle ==
    /\ \/ /\ fetch.fetchState = "pending"
          /\ \/ \E status \in {StatusOK, 500} :
                    fetch' = [fetch EXCEPT !.fetchState = "resolved", !.status = status]
             \/ \E message \in {"", "network down"} :
                    fetch' = [fetch EXCEPT !.fetchState = "rejected", !.message = message]
       \/ /\ fetch.textState = "pending"
          /\ \/ \E text \in {TextBody("oops"), JsonBody(CodeOK, "", ServerNonce, <<>>)} :
                    fetch' = [fetch EXCEPT !.textState = "resolved", !.text = text]
             \/ fetch' = [fetch EXCEPT !.textState = "rejected"]
    /\ UNCHANGED <<txClient, backupTxClients, last, hist, txInfo, txOut, signer>>

\* the host runs the reaction of a settled promise: the function chained
\* with then / catch is invoked, and runs if it is still registered
React ==
    /\ \/ /\ fetch.fetchState \in {"resolved", "rejected"}
          /\ ~fetch.fetchReacted
          /\ LET f == [fetch EXCEPT !.fetchReacted = TRUE]
             IN  fetch' = IF fetch.fetchState = "resolved"
                          THEN IF "responseHandler" \in f.funcs THEN responseHandler(f) ELSE f
                          ELSE IF "fetchErrorHandler" \in f.funcs THEN fetchErrorHandler(f) ELSE f
       \/ /\ fetch.textState \in {"resolved", "rejected"}
          /\ ~fetch.textReacted
          /\ LET f == [fetch EXCEPT !.textReacted = TRUE,
                                    !.textInTime = fetch.pc = "select" /\ ~fetch.timer]
             IN  fetch' = IF fetch.textState = "resolved"
                          THEN IF "textHandler" \in f.funcs THEN textHandler(f) ELSE f
                          ELSE IF "textErrorHandler" \in f.funcs THEN textErrorHandler(f) ELSE f
    /\ UNCHANGED <<txClient, backupTxClients, last, hist, txInfo, txOut, signer>>

\* thirty seconds have passed since the call reached the select
TimeAfter ==
    /\ fetch.pc = "select"
    /\ ~fetch.timer
    /\ fetch' = [fetch EXCEPT !.timer = TRUE]
    /\ UNCHANGED <<txClient, backupTxClients, last, hist, txInfo, txOut, signer>>

SelectOnlyReceives ==
    /\ fetch.pc = "select"
    /\ fetch.resultChan # <<>>
    /\ fetch' = [fetch EXCEPT !.pc = "returned", !.out = Head(fetch.resultChan),
                              !.resultChan = Tail(@), !.funcs = {}]
    /\ UNCHANGED <<txClient, backupTxClients, last, hist, txInfo, txOut, signer>>
\* the select: a result is received or the timer has fired (either, when
\* both are ready); the call returns and the deferred Release calls of
\* lines 115 and 132 run
Select ==
    /\ fetch.pc = "select"
    /\ \/ /\ fetch.resultChan # <<>>
          /\ fetch' = [fetch EXCEPT !.pc = "returned", !.out = Head(fetch.resultChan),
                                    !.resultChan = Tail(@), !.funcs = {}]
       \/ /\ fetch.timer
          /\ fetch' = [fetch EXCEPT !.pc = "returned", !.out = FetchTimeout, !.funcs = {}]
    /\ UNCHANGED <<txClient, backupTxClients, last, hist, txInfo, txOut, signer>>

NextFetch ==
    \/ WasmFetch
    \/ Settle
    \/ React
    \/ TimeAfter
    \/ Select

SpecFetch == InitFetch /\ [][NextFetch]_vars

\* time passes, and the Go scheduler runs a select that has a ready case
SpecFetchFair == SpecFetch /\ WF_vars(TimeAfter) /\ WF_vars(Select)

(***************************************************************************)
(* SpecSigner: one SignerWASM instance and the callers of its methods.     *)
(* JavaScript runs one job at a time: a step is the run of a job from one  *)
(* await to the next.                                                      *)
(***************************************************************************)
\* let retries = 50
Retries == 50

\* initializeWASM down to its first await (the import of wasm_exec.js or
\* the instantiation): the promise it returns is pending
initializeWASM(s) ==
    [s EXCEPT !.started = @ + 1, !.pc = "loading", !.loadingPromise = "pending"]

\* the test of the while loop and, when it ends the loop, the check that
\* follows it: sleep again, throw (caught and thrown again at 2116-2119),
\* or set wasmReady
waitForExports(s) ==
    IF s.retries > 0 /\ ~s.exported
    THEN [s EXCEPT !.pc = "sleeping"]
    ELSE IF ~s.exported
    THEN [s EXCEPT !.pc = "failed", !.loadingPromise = "rejected"]
    ELSE [s EXCEPT !.pc = "done", !.loadingPromise = "fulfilled", !.wasmReady = TRUE]

ensureReadyAlwaysLoads(s, c) ==
    IF s.wasmReady
    THEN [s EXCEPT !.callers[c].at = "ready"]
    ELSE LET t == initializeWASM(s)
         IN  [t EXCEPT !.callers[c] = [at |-> "awaiting", awaits |-> t.started]]
\* ensureReady down to its await, for caller c
ensureReady(s, c) ==
    IF s.wasmReady
    THEN [s EXCEPT !.callers[c].at = "ready"]
    ELSE LET t == IF s.loadingPromise = "null" THEN initializeWASM(s) ELSE s
         IN  [t EXCEPT !.callers[c] = [at |-> "awaiting", awaits |-> t.started]]

InitSigner ==
    /\ txClient = nil
    /\ backupTxClients = EmptyMap
    /\ last = NoCall
    /\ hist = Hist0
    /\ txInfo = NoTxInfo
    /\ txOut = NoOut
    /\ fetch = NoFetch
    /\ signer = NoSigner

\* a caller that is not waiting calls a method: await this.ensureReady()
EnsureReady ==
    \E c \in 1..MaxCallers :
        /\ signer.callers[c].at # "awaiting"
        /\ signer' = ensureReady(signer, c)
        /\ UNCHANGED <<txClient, backupTxClients, last, hist, txInfo, txOut, fetch>>

\* the import and the instantiation end: they throw, or go.run starts the
\* Go program, which may have registered its exports when go.run returns,
\* and the loop is entered
Instantiated ==
    /\ signer.pc = "loading"
    /\ \/ signer' = [signer EXCEPT !.pc = "failed", !.loadingPromise = "rejected"]
       \/ \E registered \in BOOLEAN :
              signer' = waitForExports([signer EXCEPT !.running = TRUE, !.retries = Retries,
                                                      !.exported = registered])
    /\ UNCHANGED <<txClient, backupTxClients, last, hist, txInfo, txOut, fetch>>

\* main of the Go program registers the exported functions on the global
GoMain ==
    /\ signer.running
    /\ ~signer.exported
    /\ signer' = [signer EXCEPT !.exported = TRUE]
    /\ UNCHANGED <<txClient, backupTxClients, last, hist, txInfo, txOut, fetch>>

\* the 100 ms wait of the loop ends: retries--, and the loop test again
Wake ==
    /\ signer.pc = "sleeping"
    /\ signer' = waitForExports([signer EXCEPT !.retries = @ - 1, !.polls = @ + 1])
    /\ UNCHANGED <<txClient, backupTxClients, last, hist, txInfo, txOut, fetch>>

\* await this.loadingPromise ends for a caller: ensureReady returns or throws
Resume ==
    \E c \in 1..MaxCallers :
        /\ signer.callers[c].at = "awaiting"
        /\ signer.loadingPromise \in {"fulfilled", "rejected"}
        /\ signer' = [signer EXCEPT !.callers[c].at =
                          IF signer.loadingPromise = "fulfilled" THEN "ready" ELSE "failed"]
        /\ UNCHANGED <<txClient, backupTxClients, last, hist, txInfo, txOut, fetch>>

NextSigner ==
    \/ EnsureReady
    \/ Instantiated
    \/ GoMain
    \/ Wake
    \/ Resume

SpecSigner == InitSigner /\ [][NextSigner]_vars


(***************************************************************************)
(* Properties.                                                             *)
(***************************************************************************)
IsSign(c) == c.op \in SignOps
\* the call returned a response with an empty error
Succeeded(c) == c.out.ret.kind = "json" /\ c.out.ret.error = ""
\* the call was given exactly the numbers its signature expects
NumberArgs(c, n) == Len(c.args) = n /\ \A i \in 1..n : c.args[i].kind = "number"

\* C1: a switchAPIKey call whose index (as the uint8 the function looks up)
\* has no entry in backupTxClients returns the error 'no client initialized
\* for api key' and leaves txClient and backupTxClients as they were, so the
\* identity a following sign call uses is the one active before the call.
C1_FailedSwitchChangesNothing ==
    [][(/\ last'.op = "switchAPIKey"
        /\ NumberArgs(last', 1)
        /\ Uint8(last'.args[1].n) \notin DOMAIN backupTxClients)
       => /\ last'.out.ret = Json("no client initialized for api key", NoResult)
          /\ txClient' = txClient
          /\ backupTxClients' = backupTxClients
          /\ hist'.active = hist.active]_vars

\* a failed switch while a client is active and another index is registered
C1_Witness ==
    /\ last.op = "switchAPIKey"
    /\ NumberArgs(last, 1)
    /\ last.out.ret.error = "no client initialized for api key"
    /\ txClient # nil
    /\ DOMAIN backupTxClients # {}

\* C2 (as stated): once a switchAPIKey(k) has succeeded, every successful
\* sign call returns a transaction whose ApiKeyIndex is the k of the last
\* successful switchAPIKey.
C2_SignsWithLastSwitched ==
    (IsSign(last) /\ Succeeded(last) /\ hist.lastSwitch # {})
        => last.out.ret.result.ApiKeyIndex \in hist.lastSwitch

\* C2 (amended): every successful sign call returns a transaction whose
\* ApiKeyIndex is the index of the last successful switchAPIKey or
\* createClient call, whichever came later.
C2_SignsWithLastActivated ==
    (IsSign(last) /\ Succeeded(last))
        => /\ hist.active # {}
           /\ last.out.ret.result.ApiKeyIndex \in hist.active
           /\ last.out.ret.result.ApiKeyIndex = txClient.apiKeyIndex

\* a successful sign after a switch back to the client created first
C2_Witness ==
    /\ IsSign(last) /\ Succeeded(last)
    /\ Cardinality(DOMAIN backupTxClients) = 2
    /\ hist.lastSwitch = hist.active
    /\ hist.lastSwitch = {0}
    /\ last.out.ret.result.ApiKeyIndex = 0

\* C3: after the first successful createClient the active client is
\* non-nil and is one of the clients in backupTxClients.
C3_OneActiveAfterFirstCreate ==
    hist.created # {}
        => /\ txClient # nil
           /\ \E k \in DOMAIN backupTxClients : backupTxClients[k] = txClient

\* C4: switchAPIKey(i) fails for every integer i that no successful
\* createClient call was given as its apiKeyIndex argument.
C4_UnregisteredIndexFails ==
    (/\ last.op = "switchAPIKey"
     /\ NumberArgs(last, 1)
     /\ last.args[1].n \notin hist.created)
        => last.out.ret.kind = "json" /\ last.out.ret.error # ""

\* C5: a successful createClient(url, key, chainId, k, account) stores the
\* client it built from these arguments under k (k as the uint8 the
\* function converts it to), makes it the active client, and leaves every
\* entry under another index as it was and selectable by switchAPIKey.
C5_CreateRegistersAndActivates ==
    [][(last'.op = "createClient" /\ Succeeded(last'))
       => LET a == last'.args
              k == Uint8(a[4].n)
          IN  /\ DOMAIN backupTxClients' = DOMAIN backupTxClients \cup {k}
              /\ backupTxClients'[k] = txClient'
              /\ txClient' # nil
              /\ txClient'.apiKeyIndex = k
              /\ txClient'.keyManager = a[2].s
              /\ txClient'.chainId = a[3].n
              /\ txClient'.accountIndex = a[5].n
              /\ IF a[1].s = "" THEN txClient'.apiClient = nil
                 ELSE txClient'.apiClient # nil /\ txClient'.apiClient.endpoint = a[1].s
              /\ \A j \in DOMAIN backupTxClients \ {k} :
                    /\ backupTxClients'[j] = backupTxClients[j]
                    /\ switchAPIKeyCall(<<Num(j)>>, txClient', backupTxClients').txClient
                           = backupTxClients[j]]_vars

\* a createClient that replaced the client of its index while another index
\* stays registered
C5_Witness ==
    /\ last.op = "createClient" /\ Succeeded(last)
    /\ Cardinality(DOMAIN backupTxClients) = 2
    /\ txClient = backupTxClients[Uint8(last.args[4].n)]
    /\ hist.lastSwitch = {Uint8(last.args[4].n)}


\* C6: every call of an exported function, whatever its arguments, returns
\* a JSON response object to the host: one with an empty error (the success
\* payload) or one with a non-empty error string.
C6_EveryCallReturnsResponse ==
    last.op # "none" => last.out.ret.kind = "json"

\* C7: a call of a sign function, createAuthToken, checkClient or
\* generateAPIKey, successful or not, leaves txClient and backupTxClients
\* as they were before the call.
C7_SignAndQueryCallsKeepIdentity ==
    [][(IsSign(last') \/ last'.op \in {"createAuthToken", "checkClient", "generateAPIKey"})
       => /\ txClient' = txClient
          /\ backupTxClients' = backupTxClients]_vars

\* a sign call that failed on the transport while a client is active and
\* two are registered
C7_Witness ==
    /\ IsSign(last)
    /\ last.out.built
    /\ last.out.answer = FetchTimeout
    /\ last.out.ret.error # ""
    /\ txClient # nil
    /\ Cardinality(DOMAIN backupTxClients) = 2

\* the nonce argument of a sign call that got as far as building
NonceArg(c) == c.args[Len(c.args)].n
\* a sign call that got as far as Get<Kind>Transaction on a client that has
\* an HTTP client
SignBuilt(c) == IsSign(c) /\ c.out.built /\ txClient # nil /\ txClient.apiClient # nil

C9_DefaultHorizons ==
    /\ (last.op = "signCreateOrder" /\ last.out.built)
           => LET e == last.args[10].n
              IN  IF e = -1
                  THEN /\ last.out.now \in Times
                       /\ last.out.req.OrderExpiry
                              = [sec |-> last.out.now.sec + 2419200, ms |-> last.out.now.ms]
                  ELSE last.out.req.OrderExpiry = [sec |-> e \div 1000, ms |-> e % 1000]
    /\ (last.op = "createAuthToken" /\ Succeeded(last))
           => IF Len(last.args) = 0 \/ last.args[1].n = 0
              THEN /\ last.out.now \in Times
                   /\ last.out.ret.result.deadline = last.out.now.sec + 25200
              ELSE last.out.ret.result.deadline = last.args[1].n

\* an order signed with the default expiry
C9_WitnessOrder ==
    /\ last.op = "signCreateOrder" /\ Succeeded(last)
    /\ last.args[10].n = -1
    /\ last.out.req.OrderExpiry = [sec |-> 1702419200, ms |-> 999]

\* C10: Validate returns nil only for a record whose numeric fields all lie
\* in their declared ranges: AccountIndex, ApiKeyIndex, MarketIndex, Nonce
\* and ExpiredAt within the txtypes bounds, Direction 0 (LONG) or 1 (SHORT),
\* USDCAmount not zero.
C10_ValidateEnforcesEveryRange ==
    (txOut.op = "Validate" /\ txOut.err = NoError)
        => /\ txInfo.AccountIndex \in MinAccountIndex..MaxAccountIndex
           /\ txInfo.ApiKeyIndex \in 0..MaxApiKeyIndex
           /\ txInfo.MarketIndex \in MinMarketIndex..MaxMarketIndex
           /\ txInfo.USDCAmount # 0
           /\ txInfo.Direction \in {0, 1}
           /\ txInfo.Nonce >= MinNonce
           /\ txInfo.ExpiredAt \in 0..MaxTimestamp


\* the errors of the checks of Validate that the record t violates, as
\* <<position of the check, error>>
ViolatedChecks(t) ==
    {c \in {<<1, t.AccountIndex <= MinAccountIndex, ErrFromAccountIndexTooLow>>,
             <<2, t.AccountIndex > MaxAccountIndex, ErrFromAccountIndexTooHigh>>,
             <<3, t.ApiKeyIndex > MaxApiKeyIndex, ErrApiKeyIndexTooHigh>>,
             <<4, t.MarketIndex < MinMarketIndex, ErrMarketIndexTooLow>>,
             <<5, t.MarketIndex > MaxMarketIndex, ErrMarketIndexTooHigh>>,
             <<6, t.USDCAmount = 0, ErrUSDCAmountIsZero>>,
             <<7, t.Nonce < MinNonce, ErrNonceTooLow>>,
             <<8, t.ExpiredAt < 0 \/ t.ExpiredAt > MaxTimestamp, ErrExpiredAtInvalid>>} : c[2]}

\* C11: Validate checks in the order AccountIndex too low, AccountIndex too
\* high, ApiKeyIndex too high, MarketIndex too low, MarketIndex too high,
\* USDCAmount zero, Nonce too low, ExpiredAt invalid, and returns the error
\* of the earliest check the record violates (nil when it violates none);
\* the error is a function of the record, the same on every call.
C11_ValidateReturnsEarliestViolation ==
    txOut.op = "Validate"
        => /\ txOut.err = Validate(txInfo)
           /\ IF ViolatedChecks(txInfo) = {}
              THEN txOut.err = NoError
              ELSE \E c \in ViolatedChecks(txInfo) :
                      /\ \A d \in ViolatedChecks(txInfo) : c[1] <= d[1]
                      /\ txOut.err = c[3]

\* a record that violates the amount, the nonce and the expiry checks
C11_Witness ==
    /\ txOut.op = "Validate"
    /\ {c[1] : c \in ViolatedChecks(txInfo)} = {6, 7, 8}
    /\ txOut.err = ErrUSDCAmountIsZero

\* the other fields of t pass the checks of Validate
OtherFieldsPass(t, field) ==
    \A c \in ViolatedChecks(t) :
        \/ field = "USDCAmount" /\ c[1] = 6
        \/ field = "AccountIndex" /\ c[1] \in {1, 2}

\* C12: when every other field passes its check, Validate rejects
\* USDCAmount 0 with ErrUSDCAmountIsZero and accepts every other
\* USDCAmount, the negative ones included.
C12_OnlyZeroAmountRejected ==
    (txOut.op = "Validate" /\ OtherFieldsPass(txInfo, "USDCAmount"))
        => txOut.err = IF txInfo.USDCAmount = 0 THEN ErrUSDCAmountIsZero ELSE NoError

\* a negative amount was accepted
C12_Witness ==
    /\ txOut.op = "Validate" /\ txOut.err = NoError
    /\ txInfo.USDCAmount < 0

\* the field sequence the last Hash call digested
HashedElems == txOut.out.msgHash.elems

\* C14: Hash digests exactly 9 field elements, in the order chain id, type
\* tag (TxTypeL2UpdateMargin), Nonce, ExpiredAt, AccountIndex, ApiKeyIndex,
\* MarketIndex, Direction, USDCAmount: the first two elements are the chain
\* id and the tag whatever the record holds.
C14_HashDigestsNineElementsInOrder ==
    txOut.op = "Hash"
        => /\ txOut.out.err = NoError
           /\ Len(HashedElems) = 9
           /\ HashedElems[1] = txOut.chainId
           /\ HashedElems[2] = 29
           /\ HashedElems[3] = FromInt64(txInfo.Nonce)
           /\ HashedElems[4] = FromInt64(txInfo.ExpiredAt)
           /\ HashedElems[5] = FromInt64(txInfo.AccountIndex)
           /\ HashedElems[6] = txInfo.ApiKeyIndex
           /\ HashedElems[7] = txInfo.MarketIndex
           /\ HashedElems[8] = txInfo.Direction
           /\ HashedElems[9] = FromInt64(txInfo.USDCAmount)

\* a record whose Nonce and ExpiredAt differ was hashed
C14_Witness ==
    /\ txOut.op = "Hash" /\ txOut.chainId = 1
    /\ txInfo.Nonce = 1 /\ txInfo.ExpiredAt = MaxTimestamp /\ txInfo.USDCAmount = -1
    /\ HashedElems[3] = 1 /\ HashedElems[4] = MaxTimestamp /\ HashedElems[9] = ORDER - 1

\* C15: the result of Hash is a function of the chain id and of Nonce,
\* ExpiredAt, AccountIndex, ApiKeyIndex, MarketIndex, Direction and
\* USDCAmount alone: a call leaves the record as it was, and the same call
\* on a record with any other Sig and SignedHash, with any other extra
\* elements, gives the same sequence and digest.
C15_HashDependsOnHashedFieldsOnly ==
    [][txOut'.op = "Hash"
           => /\ txInfo' = txInfo
              /\ \A s \in {<<"", "">>, <<"sig", "0xhash">>}, extra \in {<<>>, <<1>>, <<1, 2>>} :
                     Hash([txInfo EXCEPT !.Sig = s[1], !.SignedHash = s[2]],
                          txOut'.chainId, extra) = txOut'.out]_vars

\* a signed record was hashed with an extra element
C15_Witness ==
    /\ txOut.op = "Hash" /\ txOut.extra # <<>>
    /\ txInfo.Sig # "" /\ txInfo.SignedHash # ""
    /\ Len(HashedElems) = 9

\* the records that differ from t in one of the int64 fields Hash encodes
Int64Variants(t) ==
    {[t EXCEPT !.USDCAmount = v] : v \in Int64s}
    \cup {[t EXCEPT !.Nonce = v] : v \in Int64s}
    \cup {[t EXCEPT !.ExpiredAt = v] : v \in Int64s \cup 0..MaxTimestamp}
    \cup {[t EXCEPT !.AccountIndex = v] : v \in Int64s \cup 0..MaxAccountIndex}

\* C16: two records that Validate accepts and that differ in Nonce,
\* ExpiredAt, AccountIndex or USDCAmount are hashed from sequences that
\* differ at the position of that field: no two values of a validated field
\* are congruent modulo the field order.
C16_EncodingInjectiveOnValidated ==
    (txOut.op = "Hash" /\ Validate(txInfo) = NoError)
        => \A t \in Int64Variants(txInfo) :
               Validate(t) = NoError
                   => LET elems == Hash(t, txOut.chainId, txOut.extra).msgHash.elems
                      IN  /\ t.Nonce # txInfo.Nonce => elems[3] # HashedElems[3]
                          /\ t.ExpiredAt # txInfo.ExpiredAt => elems[4] # HashedElems[4]
                          /\ t.AccountIndex # txInfo.AccountIndex => elems[5] # HashedElems[5]
                          /\ t.USDCAmount # txInfo.USDCAmount => elems[9] # HashedElems[9]

PastEntry(c) == IsSign(c) /\ ~SignEntry(c.op, c.args, txClient).stop

\* C17: signTransfer with the empty memo builds and signs a transfer whose
\* Memo is 32 zero bytes; with a memo of exactly 64 hex characters it builds
\* and signs one whose Memo is the 32 bytes the memo decodes to; with any
\* other memo it returns an error, builds no transaction and signs nothing.
C17_TransferMemoZeroOrThirtyTwoBytes ==
    (last.op = "signTransfer" /\ PastEntry(last))
        => LET memoStr == last.args[4].s
               signedMemo(memo) ==
                   /\ last.out.built /\ last.out.req.Memo = memo
                   /\ Succeeded(last) => /\ last.out.ret.result.body.Memo = memo
                                          /\ last.out.ret.result.Sig # <<>>
           IN  IF memoStr = "" THEN signedMemo("0*32")
               ELSE IF memoStr = "MEMO64" THEN signedMemo("MEMO64")
               ELSE /\ ~last.out.built
                    /\ last.out.ret.kind = "json" /\ last.out.ret.error # ""
                    /\ last.out.ret.result = NoResult
                    /\ last.out.nonceCalls = 0

\* a transfer with the empty memo was signed
C17_WitnessZeroMemo ==
    /\ last.op = "signTransfer" /\ Succeeded(last)
    /\ last.args[4] = Str("")
    /\ last.out.ret.result.body.Memo = "0*32"

\* the orderExpiry of the legs of the orders lists the host passes
SuppliedLegs(ordersJSON) ==
    CASE ordersJSON = "[]" -> <<>>
      [] ordersJSON = "[e]" -> <<1500>>
      [] ordersJSON = "[e,d]" -> <<1500, -1>>
      [] ordersJSON = "[d,e,e]" -> <<-1, 1500, 1500>>
      [] ordersJSON = "[e,e,e,e]" -> <<1500, 1500, 1500, 1500>>

\* C18: signCreateGroupedOrders returns 'grouped orders must contain 2 or 3
\* orders' for an orders list of fewer than 2 or more than 3 legs, before it
\* builds a transaction, and for 2 or 3 legs builds a request with as many
\* legs, in the order of the list.
C18_GroupedOrdersTwoOrThreeLegs ==
    (/\ last.op = "signCreateGroupedOrders" /\ PastEntry(last)
     /\ last.args[2].s \in {"[]", "[e]", "[e,d]", "[d,e,e]", "[e,e,e,e]"})
        => LET legs == SuppliedLegs(last.args[2].s)
               orders == last.out.req.Orders
           IN  IF Len(legs) < 2 \/ Len(legs) > 3
               THEN /\ last.out.ret = Json("grouped orders must contain 2 or 3 orders", NoResult)
                    /\ ~last.out.built
                    /\ last.out.nonceCalls = 0
               ELSE /\ last.out.built
                    /\ Len(orders) = Len(legs)
                    /\ \A i \in 1..Len(legs) :
                           orders[i].OrderExpiry
                               = IF legs[i] = -1
                                 THEN [sec |-> last.out.now.sec + 2419200,
                                       ms |-> last.out.now.ms]
                                 ELSE [sec |-> 1, ms |-> 500]

\* three legs were signed, the first with the default expiry
C18_WitnessThreeLegs ==
    /\ last.op = "signCreateGroupedOrders" /\ Succeeded(last)
    /\ last.args[2] = Str("[d,e,e]")
    /\ Len(last.out.ret.result.body.Orders) = 3
    /\ last.out.ret.result.body.Orders[1].OrderExpiry.sec > 2419200
    /\ last.out.ret.result.body.Orders[2].OrderExpiry = [sec |-> 1, ms |-> 500]

\* C19: an index (as the uint8 the map is keyed by) for which createClient
\* has succeeded is registered in every later state: no call removes an
\* entry of backupTxClients, and the entry of an index changes only in a
\* successful createClient call for that index.
C19_RegisteredStaysRegistered ==
    [][/\ \A k \in DOMAIN backupTxClients :
              /\ k \in DOMAIN backupTxClients'
              /\ backupTxClients'[k] # backupTxClients[k]
                     => /\ last'.op = "createClient" /\ Succeeded(last')
                        /\ Uint8(last'.args[4].n) = k
       /\ \A i \in hist'.created : Uint8(i) \in DOMAIN backupTxClients'
       /\ (last'.op = "createClient" /\ Succeeded(last'))
              => Uint8(last'.args[4].n) \in DOMAIN backupTxClients']_vars

\* two indices are registered, one of them twice, and a later switchAPIKey
\* found its index
C19_WitnessLaterSwitch ==
    /\ last.op = "switchAPIKey" /\ Succeeded(last)
    /\ DOMAIN backupTxClients = {0, 1}
    /\ hist.created = {0, 1, 256}

\* the last request function got as far as calling wasmFetch
CalledWasmFetch ==
    /\ txOut.op \in {"GetNextNonce", "GetApiKey", "SendRawTx"}
    /\ txClient.apiClient # nil
    /\ IF txOut.op = "SendRawTx" THEN txOut.out.form # [kind |-> "none"]
       ELSE txClient.apiClient.endpoint # "%zz"

\* C20: GetNextNonce, GetApiKey and SendRawTx fetch at most once per call.
\* When the fetch fails its error is returned as it is; a status other than
\* 200 gives an error whose message is the response body; a JSON body whose
\* code is not OK gives an error whose message is the body's message; a
\* call succeeds only on a 200 response whose code is OK; GetNextNonce
\* returns -1 with every error.
C20_OneFetchErrorsAsDelivered ==
    txOut.op \in {"GetNextNonce", "GetApiKey", "SendRawTx"}
        => LET fr == txOut.fr
               out == txOut.out
           IN  /\ out.fetches <= 1
               /\ (~out.panic /\ ~out.err.isErr)
                      => /\ CalledWasmFetch /\ out.fetches = 1
                         /\ ~fr.err.isErr /\ fr.status = 200
                         /\ fr.body.json /\ fr.body.code = CodeOK
               /\ (txOut.op = "GetNextNonce" /\ out.err.isErr) => out.nonce = -1
               /\ CalledWasmFetch
                      => /\ out.fetches = IF fr.fetched THEN 1 ELSE 0
                         /\ fr.err.isErr => out.err = fr.err
                         /\ (~fr.err.isErr /\ fr.status # 200)
                                => out.err = [isErr |-> TRUE, msg |-> fr.body.text]
                         /\ (~fr.err.isErr /\ fr.status = 200 /\ fr.body.json
                             /\ fr.body.code # CodeOK)
                                => out.err = [isErr |-> TRUE, msg |-> fr.body.message]

\* SendRawTx was answered 200 with a code that is not OK
C20_WitnessRejectedTx ==
    /\ txOut.op = "SendRawTx" /\ txOut.fr.status = 200
    /\ txOut.out.err = [isErr |-> TRUE, msg |-> "invalid signature"]
    /\ txOut.out.fetches = 1 /\ txOut.out.txHash = ""

\* C21: the form SendRawTx posts holds tx_type, the numeric type tag, and
\* tx_info, the serialized record, and nothing else but
\* price_protection=false, which it holds exactly when the protection of
\* the client is off: it is on for a new client and off after
\* SetFatFingerProtection(false) only.  When the record cannot be
\* serialized, no form is built and nothing is fetched.
C21_SendRawTxForm ==
    [][/\ txClient'.apiClient # nil
              => (txClient'.apiClient.fatFingerProtection = FALSE
                      <=> (last'.op = "SetFatFingerProtection" /\ last'.args = <<FALSE>>))
       /\ (txOut' # txOut /\ txOut'.op = "SendRawTx" /\ txClient.apiClient # nil)
              => IF txOut'.info.err.isErr
                 THEN /\ txOut'.out.form = [kind |-> "none"]
                      /\ txOut'.out.fetches = 0
                      /\ txOut'.out.err = txOut'.info.err /\ txOut'.out.txHash = ""
                 ELSE /\ txOut'.out.form.tx_type = 29
                      /\ txOut'.out.form.tx_info = [json |-> txInfo]
                      /\ DOMAIN txOut'.out.form
                             = IF txClient.apiClient.fatFingerProtection
                               THEN {"tx_type", "tx_info"}
                               ELSE {"tx_type", "tx_info", "price_protection"}
                      /\ ~txClient.apiClient.fatFingerProtection
                             => txOut'.out.form.price_protection = "false"]_vars

\* a transaction was accepted by the server after the protection was
\* switched off
C21_WitnessUnprotected ==
    /\ txOut.op = "SendRawTx" /\ txOut.out.txHash = "0xTX"
    /\ last.op = "SetFatFingerProtection" /\ last.args = <<FALSE>>
    /\ DOMAIN txOut.out.form = {"tx_type", "tx_info", "price_protection"}

\* C22: every wasmFetch call that reaches the select returns, and a call
\* returns one outcome: what was delivered on resultChan or, when nothing
\* was delivered (as when the fetch promise never settles), the error
\* 'fetch timeout after 30 seconds', and that only once the thirty seconds
\* have passed; what the host does after the return does not change the
\* outcome; no step of a call changes txClient or backupTxClients.
C22_EveryCallReturnsOneOutcome ==
    /\ (fetch.pc = "select") ~> (fetch.pc = "returned")
    /\ [][/\ (fetch.pc = "select" /\ fetch'.pc = "returned")
                 => /\ fetch'.out \in {fetch.resultChan[i] : i \in 1..Len(fetch.resultChan)}
                                          \cup {FetchTimeout}
                    /\ fetch.resultChan = <<>> => fetch'.out = FetchTimeout
                    /\ fetch'.out = FetchTimeout => fetch.timer
          /\ (fetch.pc # "select" /\ fetch'.pc = "returned" /\ fetch'.fetchState = "none")
                 => fetch'.out = FetchUnavailable
          /\ (fetch.pc = "returned" /\ fetch'.pc = "returned" /\ fetch'.fetchState # "none")
                 => fetch'.out = fetch.out
          /\ fetch' # fetch => UNCHANGED <<txClient, backupTxClients>>]_vars

\* a call returned the timeout error while its fetch promise was still
\* pending, on a client that has an HTTP client
C22_WitnessTimedOut ==
    /\ fetch.pc = "returned" /\ fetch.out = FetchTimeout
    /\ fetch.fetchState = "pending" /\ txClient.apiClient # nil

\* C27: when the fetch promise resolved with status s and the reaction of
\* the text promise, resolved with text t, ran before the thirty seconds
\* had passed, the call returns (t, s, nil); when the reaction of a rejected
\* fetch promise ran before the thirty seconds had passed and the call did
\* not return the timeout, it returns 'fetch failed: <message>' with status 0.
C27_ResolvedTextIsReturned ==
    /\ (fetch.pc = "returned" /\ fetch.textState = "resolved" /\ fetch.textInTime)
           => fetch.out = Delivered(fetch.text, fetch.status)
    /\ (fetch.pc = "returned" /\ fetch.fetchState = "rejected" /\ fetch.out # FetchTimeout)
           => /\ fetch.out.status = 0
              /\ fetch.out.err
                     = Err("fetch failed: "
                           \o (IF fetch.message # "" THEN fetch.message ELSE "fetch error"))

\* C28: under any interleaving of the callers of one SignerWASM instance,
\* initializeWASM is started at most once and every caller that waits
\* awaits the promise of that one start; wasmReady is true only when the
\* Go exports are visible; the loop waits at most 50 times, and when the
\* load failed after the Go program was started, it had waited 50 times and
\* rejected the loading promise.
C28_InitializeWASMStartedOnce ==
    /\ signer.started <= 1
    /\ \A c \in 1..MaxCallers :
           signer.callers[c].at = "awaiting"
               => signer.callers[c].awaits = 1 /\ signer.loadingPromise # "null"
    /\ signer.wasmReady => signer.exported /\ signer.pc = "done"
    /\ signer.polls <= Retries
    /\ signer.pc = "sleeping" => signer.polls < Retries /\ signer.retries = Retries - signer.polls
    /\ (signer.pc = "failed" /\ signer.running)
           => signer.polls = Retries /\ signer.loadingPromise = "rejected" /\ ~signer.wasmReady

\* two callers waited for the one load, which gave up after 50 waits
C28_WitnessGaveUp ==
    /\ signer.started = 1 /\ signer.polls = Retries /\ signer.pc = "failed"
    /\ \A c \in 1..MaxCallers : signer.callers[c].at = "failed" /\ signer.callers[c].awaits = 1

\* the record a successful signTransfer call returned, checked against its
\* arguments: sender (the AccountIndex of the record, which the transfer
\* record names FromAccountIndex), receiver, amount, fee, memo (the zero memo for the
\* empty string), both signatures present and every other field as
\* GetTransferTransaction signed it
TransferFields(c, tc) ==
    LET a == c.args
        r == c.out.ret.result
        sameAs(t) == r = [t.tx EXCEPT !.MessageToSign = r.MessageToSign]
    IN  /\ r.AccountIndex = tc.accountIndex
        /\ r.body.ToAccountIndex = a[1].n /\ r.body.USDCAmount = a[2].n
        /\ r.body.Fee = a[3].n
        /\ r.body.Memo = (IF a[4].s = "" THEN ZeroMemo ELSE hexutilDecode("0x" \o a[4].s).bytes)
        /\ r.MessageToSign # "" /\ r.Sig # <<>>
        /\ sameAs(GetTransaction(tc, "Transfer", c.out.req, TransactOpts(a[5].n, 0),
                                 c.out.answer, TRUE))

WellFormedCall(c) ==
    IF c.op = "createAuthToken"
    THEN Len(c.args) = 0 \/ (Len(c.args) = 1 /\ c.args[1].kind = "number")
    ELSE /\ IsSign(c)
         /\ Len(c.args) = Len(SignOp(c.op).argNames)
         /\ \A i \in 1..Len(c.args) : c.args[i].kind \notin {"null", "undefined"}

\* C24: while txClient is nil, a sign call or a createAuthToken call with
\* well-formed arguments returns the error 'client is not created, call
\* CreateClient() first' with an empty result, having made no GetNextNonce
\* call and no fetch and having built and signed nothing.
C24_NoClientNoSigning ==
    (txClient = nil /\ WellFormedCall(last))
        => /\ last.out = Failed(NoClientError)
           /\ last.out.ret.result = NoResult
           /\ last.out.nonceCalls = 0 /\ last.out.fetches = 0 /\ ~last.out.built

\* signUpdateMargin was called with four numbers before any client existed
C24_WitnessNoClient ==
    /\ txClient = nil /\ hist.created = {}
    /\ last.op = "signUpdateMargin" /\ NumberArgs(last, 4)
    /\ last.out.ret.error = "client is not created, call CreateClient() first"

\* C25: a createClient call that returns an error leaves txClient and
\* backupTxClients as they were.
C25_FailedCreateChangesNothing ==
    [][(/\ last'.op = "createClient"
        /\ last'.out.ret.kind = "json"
        /\ last'.out.ret.error # "")
           => txClient' = txClient /\ backupTxClients' = backupTxClients]_vars

\* C26: every entry of backupTxClients stored under key k is a client whose
\* ApiKeyIndex is k; the active client, when there is one, is the entry
\* stored under its own ApiKeyIndex; no checkClient call returns
\* 'apiKeyIndex does not match'.
C26_MapKeysAreApiKeyIndices ==
    /\ \A k \in DOMAIN backupTxClients :
           backupTxClients[k] # nil /\ backupTxClients[k].apiKeyIndex = k
    /\ txClient # nil
           => /\ txClient.apiKeyIndex \in DOMAIN backupTxClients
              /\ backupTxClients[txClient.apiKeyIndex] = txClient
    /\ last.op = "checkClient" => last.out.ret.error # "apiKeyIndex does not match"

\* two clients are registered, the one under 0 was replaced by a later
\* createClient call and is active, and checkClient looked a client up
C26_WitnessTwoEntries ==
    /\ Cardinality(DOMAIN backupTxClients) = 2
    /\ txClient = backupTxClients[0]
    /\ txClient.apiClient = nil
    /\ last.op = "checkClient" /\ NumberArgs(last, 2) /\ last.args[1].n \in DOMAIN backupTxClients

Absent(v) == IsNull(v) \/ IsUndefined(v)

\* what validateArg says of the lowest null or undefined argument of args
LowestAbsent(args, argNames) ==
    LET i == CHOOSE k \in 1..Len(args) :
                 Absent(args[k]) /\ \A j \in 1..(k - 1) : ~Absent(args[j])
    IN  IF IsNull(args[i])
        THEN "argument " \o argNames[i] \o " cannot be null"
        ELSE "argument " \o argNames[i] \o " cannot be undefined"

\* argument lists with one or two null or undefined arguments, and lists
\* one argument short or one too long
ManyAbsent(op) ==
    LET b == Base[op]
        n == Len(b)
        put(a, i, v) == IF v.kind = "keep" THEN a ELSE With(a, i, v)
        some == {put(With(b, i, u), n, v) :
                     i \in {1, (n + 1) \div 2},
                     u \in {Null, Undefined},
                     v \in {Null, Undefined, [kind |-> "keep"]}}
    IN  some \cup {b, <<>>, SubSeq(b, 1, n - 1), Append(b, Null),
                   SubSeq(With(b, 1, Null), 1, n - 1), Append(With(b, 1, Undefined), Num(0))}

\* C30: a sign function tests the number of its arguments, then each argument
\* in index order for null and undefined, then the active client: with the
\* wrong number of arguments it returns its 'requires N arguments' error
\* whether or not a client is active, with several null or undefined
\* arguments it names the one with the lowest index, and only a call that
\* passes both tests is told that no client was created.
C30_SignChecksInOrder ==
    /\ \A op \in SignOps : \A args \in ManyAbsent(op) :
         LET d == SignOp(op)
             entry(e) ==
                 IF Len(args) # Len(d.argNames)
                 THEN e.stop /\ e.out = Failed(d.usage)
                 ELSE IF \E i \in 1..Len(args) : Absent(args[i])
                 THEN e.stop /\ e.out = Failed(LowestAbsent(args, d.argNames))
                 ELSE txClient = nil => e.stop /\ e.out = Failed(NoClientError)
         IN  entry(SignEntry(op, args, txClient))
    /\ last.op \in SignOps =>
         LET d == SignOp(last.op)
         IN  IF Len(last.args) # Len(d.argNames)
             THEN last.out = Failed(d.usage)
             ELSE (\E i \in 1..Len(last.args) : Absent(last.args[i]))
                      => last.out = Failed(LowestAbsent(last.args, d.argNames))

\* signTransfer was called before any client existed with its first argument
\* null and its last undefined, and named the first
C30_WitnessTwoAbsent ==
    /\ txClient = nil
    /\ last.op = "signTransfer" /\ Len(last.args) = 5
    /\ IsNull(last.args[1]) /\ IsUndefined(last.args[5])
    /\ last.out.ret.error = "argument toAccountIndex cannot be null"

====
